-------------------------- MODULE CardTradesProofs --------------------------
(***************************************************************************)
(* Proofs about CardTrades for every number of users, groups, copies and   *)
(* trades.                                                                 *)
(***************************************************************************)
EXTENDS CardTradesAgreement, SupplyClaimsProofs, SequenceTheorems

(* Rows are numbered in the order they are inserted.                       *)
RowsInOrder == \A t \in TradeIds : status[t] = "none" <=> created < t

IInv == /\ TypeOK
        /\ RowsInOrder
        /\ CompletedWhenBothSettled
        /\ PinsAreOwed
        /\ PromisedOnce
        /\ PromisedCopyAtHome

(* What TypeOK and the reservations read, apart from the history.          *)
Reservations == /\ CompletedWhenBothSettled
                /\ PinsAreOwed
                /\ PromisedOnce
                /\ PromisedCopyAtHome

USE DEF TradeIds, Roles

(* The sweep closes pending trades and changes no other row.               *)
LEMMA SweptStatusClosesPending ==
  ASSUME NEW STATE u, NEW STATE st, st \in [TradeIds -> Statuses]
  PROVE  /\ SweptStatus(u, st) \in [TradeIds -> Statuses]
         /\ \A t \in TradeIds : \/ SweptStatus(u, st)[t] = st[t]
                                \/ /\ st[t] = "pending"
                                   /\ SweptStatus(u, st)[t] = "cancelled"
BY DEF SweptStatus, Statuses, Closed

LEMMA InitIInv == ASSUME ConstantsAssumption, Init PROVE IInv
<1>1. TypeOK
  BY DEF ConstantsAssumption, Init, TypeOK, Statuses, Terms, NoTerms
<1>2. RowsInOrder
  BY DEF ConstantsAssumption, Init, RowsInOrder
<1>3. Reservations
  BY DEF Init, Reservations, CompletedWhenBothSettled, PinsAreOwed, OwesCopies,
         PromisedOnce, PromisedCopyAtHome, Pinned, Lent
<1> QED
  BY <1>1, <1>2, <1>3 DEF IInv, Reservations

-----------------------------------------------------------------------------
(* Most operations only close trades, release pins, take copies away that  *)
(* no trade holds, and end loans.                                          *)
OnlyReleases ==
  /\ created' = created /\ settled' = settled
  /\ \A t \in TradeIds :
       /\ \/ status'[t] = status[t]
          \/ status[t] # "none" /\ status'[t] \in {"declined", "cancelled", "expired"}
       /\ pins'[t] \subseteq pins[t]
       /\ pins'[t] # {} => /\ status'[t] = status[t]
                           /\ terms'[t].giver = terms[t].giver
       /\ \A c \in pins'[t] : place'[c] = place[c]
  /\ \A u \in Users : lent'[u] \subseteq lent[u]

LEMMA ReleasingKeepsIInv ==
  ASSUME IInv, TypeOK', OnlyReleases
  PROVE  IInv'
<1>1. RowsInOrder'
  BY DEF IInv, RowsInOrder, OnlyReleases
<1>2. CompletedWhenBothSettled'
  BY DEF IInv, CompletedWhenBothSettled, OnlyReleases
<1>3. PinsAreOwed'
  BY DEF IInv, PinsAreOwed, OwesCopies, OnlyReleases
<1>4. PromisedOnce'
  <2>1. \A s, t \in TradeIds : s # t => pins'[s] \cap pins'[t] = {}
    BY DEF IInv, PromisedOnce, OnlyReleases
  <2>2. Pinned' \cap Lent' = {}
    BY DEF IInv, PromisedOnce, OnlyReleases, Pinned, Lent
  <2>3. \A u, v \in Users : u # v => lent'[u] \cap lent'[v] = {}
    BY DEF IInv, PromisedOnce, OnlyReleases
  <2> QED BY <2>1, <2>2, <2>3 DEF PromisedOnce
<1>5. PromisedCopyAtHome'
  BY DEF IInv, PromisedCopyAtHome, OnlyReleases
<1> QED
  BY <1>1, <1>2, <1>3, <1>4, <1>5 DEF IInv

-----------------------------------------------------------------------------
(* Requests, offers and their answers *)

LEMMA NextRowIsFree ==
  ASSUME ConstantsAssumption, IInv, created < MaxTrades
  PROVE  /\ NextId \in TradeIds /\ status[NextId] = "none"
         /\ pins[NextId] = {} /\ settled[NextId] = {}
<1>1. NextId \in TradeIds /\ created < NextId
  BY DEF ConstantsAssumption, IInv, TypeOK, NextId
<1>2. status[NextId] = "none"
  BY <1>1 DEF IInv, RowsInOrder
<1> QED
  BY <1>1, <1>2 DEF IInv, TypeOK, PinsAreOwed, OwesCopies, CompletedWhenBothSettled

LEMMA CreateTradeKeepsIInv ==
  ASSUME ConstantsAssumption, IInv,
         NEW g \in Groups, NEW giver \in Users, NEW receiver \in Users,
         NEW initiator \in Roles, NEW n \in Quantities, NEW names \in SUBSET Copies,
         CreateTrade(g, giver, receiver, initiator, n, names)
  PROVE  IInv'
<1>1. /\ NextId \in TradeIds /\ status[NextId] = "none"
      /\ pins[NextId] = {} /\ settled[NextId] = {}
  BY NextRowIsFree DEF CreateTrade
<1>2. n \in Nat
  BY DEF ConstantsAssumption, Quantities
<1>3. TypeOK'
  <2>1. created' \in 0..MaxTrades
    BY <1>1 DEF CreateTrade
  <2>2. /\ status' \in [TradeIds -> Statuses] /\ terms' \in [TradeIds -> Terms]
        /\ requested' \in [TradeIds -> SUBSET Copies]
    BY <1>1 DEF IInv, TypeOK, CreateTrade, Statuses, Terms
  <2>3. /\ quantity' \in [TradeIds -> Nat] /\ agreed' \in [TradeIds -> Nat]
        /\ wish' \in [Users -> Nat]
    BY <1>1, <1>2 DEF IInv, TypeOK, CreateTrade
  <2> QED
    BY <2>1, <2>2, <2>3 DEF IInv, TypeOK, CreateTrade, groupVars
<1>7. RowsInOrder'
  <2>1. status' = [status EXCEPT ![NextId] = "pending"] /\ created' = NextId
    BY DEF CreateTrade
  <2>2. /\ status \in [TradeIds -> Statuses]
        /\ created \in Nat /\ NextId = created + 1
    BY DEF ConstantsAssumption, IInv, TypeOK, NextId
  <2>3. \A s \in TradeIds : status[s] = "none" <=> created < s
    BY DEF IInv, RowsInOrder
  <2>4. ASSUME NEW s \in TradeIds
        PROVE  status'[s] = "none" <=> created' < s
    BY <1>1, <2>1, <2>2, <2>3
  <2> QED BY <2>4 DEF RowsInOrder
<1>4. CompletedWhenBothSettled'
  BY <1>1 DEF IInv, TypeOK, CompletedWhenBothSettled, CreateTrade
<1>5. PinsAreOwed' /\ PromisedCopyAtHome'
  BY <1>1 DEF IInv, TypeOK, PinsAreOwed, OwesCopies, PromisedCopyAtHome, CreateTrade
<1>6. PromisedOnce'
  <2>1. pins' = pins /\ lent' = lent
    BY DEF CreateTrade
  <2>2. Pinned' = Pinned /\ Lent' = Lent
    BY <2>1 DEF Pinned, Lent
  <2> QED BY <2>1, <2>2 DEF IInv, PromisedOnce
<1> QED
  BY <1>3, <1>4, <1>5, <1>6, <1>7 DEF IInv

LEMMA AcceptTradeKeepsIInv ==
  ASSUME ConstantsAssumption, IInv, NEW t \in TradeIds, NEW P \in SUBSET Copies,
         AcceptTrade(t, P)
  PROVE  IInv'
<1> DEFINE st == [status EXCEPT ![t] = "reserved"]
<1>1. st \in [TradeIds -> Statuses]
  BY DEF IInv, TypeOK, Statuses
<1>2. status' = SweptStatus(terms[t].giver, st)
  BY DEF AcceptTrade
<1>3. /\ status' \in [TradeIds -> Statuses] /\ status'[t] = "reserved"
      /\ \A s \in TradeIds : s # t =>
           status'[s] = status[s] \/ (status[s] = "pending" /\ status'[s] = "cancelled")
  <2>1. /\ status' \in [TradeIds -> Statuses]
        /\ \A s \in TradeIds :
             status'[s] = st[s] \/ (st[s] = "pending" /\ status'[s] = "cancelled")
    <3> HIDE DEF st
    <3> QED BY <1>1, <1>2, SweptStatusClosesPending
  <2> QED BY <2>1 DEF IInv, TypeOK
<1>4. /\ pins' = [pins EXCEPT ![t] = P] /\ status[t] = "pending"
      /\ \A c \in P : place[c] = terms[t].giver /\ c \notin Pinned \cup Lent
  <2>1. pins' = [pins EXCEPT ![t] = P] /\ status[t] = "pending"
    BY DEF AcceptTrade
  <2>2. P \subseteq Supply(terms[t].group, terms[t].giver)
    BY DEF AcceptTrade
  <2> QED BY <2>1, <2>2 DEF Supply
<1>5. UNCHANGED <<created, terms, settled, place, lent>>
  BY DEF AcceptTrade
<1>6. TypeOK'
  BY <1>3, <1>4 DEF IInv, TypeOK, AcceptTrade, groupVars, history
<1>7. RowsInOrder'
  BY <1>3, <1>4, <1>5 DEF IInv, RowsInOrder
<1>8. CompletedWhenBothSettled'
  BY <1>3, <1>4, <1>5 DEF IInv, CompletedWhenBothSettled
<1>9. PinsAreOwed'
  <2>1. status'[t] = "reserved" /\ "giver" \notin settled'[t]
    <3>1. settled[t] = {}
      BY <1>4 DEF IInv, CompletedWhenBothSettled
    <3> QED BY <1>3, <1>5, <3>1
  <2>2. ASSUME NEW s \in TradeIds, s # t, pins'[s] # {}
        PROVE  status'[s] = "reserved" /\ "giver" \notin settled'[s]
    <3>1. status[s] = "reserved" /\ "giver" \notin settled[s]
      BY <1>4, <2>2 DEF IInv, TypeOK, PinsAreOwed, OwesCopies
    <3> QED BY <1>3, <1>5, <2>2, <3>1
  <2> QED BY <2>1, <2>2 DEF PinsAreOwed, OwesCopies
<1>10. PromisedOnce'
  <2>1. \A r, s \in TradeIds : r # s => pins'[r] \cap pins'[s] = {}
    <3>1. /\ \A r \in TradeIds : pins'[r] = IF r = t THEN P ELSE pins[r]
          /\ \A r, s \in TradeIds : r # s => pins[r] \cap pins[s] = {}
      BY <1>4 DEF IInv, TypeOK, PromisedOnce
    <3>2. \A c \in P : c \notin Pinned
      BY <1>4
    <3>3. \A r \in TradeIds : P \cap pins[r] = {}
      BY <3>2 DEF Pinned
    <3> QED BY <3>1, <3>3
  <2>2. Pinned' \cap Lent' = {}
    <3>1. Pinned' \subseteq Pinned \cup P
      BY <1>4 DEF IInv, TypeOK, Pinned
    <3>2. Lent' = Lent /\ Pinned \cap Lent = {}
      BY <1>5 DEF IInv, PromisedOnce, Lent
    <3> QED BY <1>4, <3>1, <3>2
  <2> QED BY <1>5, <2>1, <2>2 DEF IInv, PromisedOnce
<1>11. PromisedCopyAtHome'
  BY <1>4, <1>5 DEF IInv, TypeOK, PromisedCopyAtHome
<1> QED
  BY <1>6, <1>7, <1>8, <1>9, <1>10, <1>11 DEF IInv

(* A copy is pinned only by a reserved trade, so the sweep, which closes   *)
(* pending trades, leaves every pin with its trade.                        *)
LEMMA PinnedIsReserved ==
  ASSUME IInv, NEW t \in TradeIds, pins[t] # {}
  PROVE  status[t] = "reserved"
BY DEF IInv, PinsAreOwed, OwesCopies

LEMMA SweepingReleases ==
  ASSUME IInv, NEW STATE u, status' = SweptStatus(u, status)
  PROVE  /\ status' \in [TradeIds -> Statuses]
         /\ \A t \in TradeIds :
              \/ status'[t] = status[t]
              \/ status[t] = "pending" /\ status'[t] = "cancelled"
<1>1. status \in [TradeIds -> Statuses]
  BY DEF IInv, TypeOK
<1> QED BY <1>1 DEF SweptStatus, Statuses, Closed

LEMMA AcceptVanishedKeepsIInv ==
  ASSUME ConstantsAssumption, IInv, NEW t \in TradeIds, AcceptVanished(t)
  PROVE  IInv'
<1> DEFINE st == [status EXCEPT ![t] = "cancelled"]
<1>1. st \in [TradeIds -> Statuses]
  BY DEF IInv, TypeOK, Statuses, Closed
<1>2. /\ status' = SweptStatus(terms[t].giver, st) /\ status[t] = "pending"
      /\ pins' = [pins EXCEPT ![t] = {}]
      /\ UNCHANGED <<created, terms, settled, place, lent>>
  BY DEF AcceptVanished
<1>3. /\ status' \in [TradeIds -> Statuses]
      /\ \A s \in TradeIds :
           status'[s] = st[s] \/ (st[s] = "pending" /\ status'[s] = "cancelled")
  <2> HIDE DEF st
  <2> QED BY <1>1, <1>2, SweptStatusClosesPending
<1>4. /\ status'[t] = "cancelled"
      /\ \A s \in TradeIds : s # t =>
           status'[s] = status[s] \/ (status[s] = "pending" /\ status'[s] = "cancelled")
  BY <1>3 DEF IInv, TypeOK
<1>5. TypeOK'
  BY <1>2, <1>3 DEF IInv, TypeOK, AcceptVanished, groupVars, history
<1>6. OnlyReleases
  BY <1>2, <1>4, PinnedIsReserved DEF IInv, TypeOK, OnlyReleases
<1> QED BY <1>5, <1>6, ReleasingKeepsIInv

LEMMA AnswersKeepIInv ==
  ASSUME ConstantsAssumption, IInv, NEW t \in TradeIds,
         AcceptNamedGone(t) \/ DeclineTrade(t) \/ CancelTrade(t)
  PROVE  IInv'
<1>1. PICK st \in {"cancelled", "declined"} : status' = [status EXCEPT ![t] = st]
  BY DEF AcceptNamedGone, DeclineTrade, CancelTrade
<1>2. /\ status[t] \in {"pending", "reserved"}
      /\ status[t] = "pending" \/ pins' = [pins EXCEPT ![t] = {}]
      /\ pins' = pins \/ pins' = [pins EXCEPT ![t] = {}]
      /\ UNCHANGED <<created, terms, settled, place, lent>>
  BY DEF AcceptNamedGone, DeclineTrade, CancelTrade, HoldsLiveSlot
<1>3. TypeOK'
  <2>1. status' \in [TradeIds -> Statuses] /\ pins' \in [TradeIds -> SUBSET Copies]
    BY <1>1, <1>2 DEF IInv, TypeOK, Statuses, Closed
  <2> QED BY <2>1 DEF IInv, TypeOK, AcceptNamedGone, DeclineTrade, CancelTrade,
                      groupVars, history
<1>4. OnlyReleases
  BY <1>1, <1>2, PinnedIsReserved DEF IInv, TypeOK, OnlyReleases
<1> QED BY <1>3, <1>4, ReleasingKeepsIInv

LEMMA SetTradeQuantityKeepsIInv ==
  ASSUME ConstantsAssumption, IInv, NEW t \in TradeIds, NEW n \in Quantities,
         SetTradeQuantity(t, n)
  PROVE  IInv'
<1>1. n \in Nat
  BY DEF ConstantsAssumption, Quantities
<1>2. TypeOK'
  <2>1. quantity' \in [TradeIds -> Nat] /\ agreed' \in [TradeIds -> Nat]
    BY <1>1 DEF IInv, TypeOK, SetTradeQuantity
  <2>2. wish' \in [Users -> Nat]
    BY <1>1 DEF IInv, TypeOK, SetTradeQuantity
  <2>3. requested' \in [TradeIds -> SUBSET Copies] /\ bereft' \subseteq TradeIds
    BY DEF IInv, TypeOK, SetTradeQuantity
  <2> QED BY <2>1, <2>2, <2>3 DEF IInv, TypeOK, SetTradeQuantity, groupVars
<1>3. OnlyReleases
  BY DEF SetTradeQuantity, OnlyReleases
<1> QED BY <1>2, <1>3, ReleasingKeepsIInv

LEMMA ExpirePendingKeepsIInv ==
  ASSUME ConstantsAssumption, IInv, NEW S \in SUBSET TradeIds, ExpirePending(S)
  PROVE  IInv'
<1>1. TypeOK'
  BY DEF IInv, TypeOK, ExpirePending, Statuses, Closed, groupVars, history
<1>2. OnlyReleases
  BY PinnedIsReserved DEF ExpirePending, OnlyReleases
<1> QED BY <1>1, <1>2, ReleasingKeepsIInv

-----------------------------------------------------------------------------
(* Copies and loans *)

LEMMA CascadingReleases ==
  ASSUME IInv, NEW STATE S, NEW STATE kept, NEW STATE shared, NEW STATE loans,
         kept \in [TradeIds -> SUBSET Copies], shared \in [Groups -> SUBSET Copies],
         loans \in [Users -> SUBSET Copies],
         \A t \in TradeIds : kept[t] \subseteq pins[t],
         \A u \in Users : loans[u] \subseteq lent[u],
         CascadeCopies(S, kept, shared, loans)
  PROVE  /\ place' \in [Copies -> Places] /\ offered' \in [Groups -> SUBSET Copies]
         /\ lent' \in [Users -> SUBSET Copies]
         /\ pins' \in [TradeIds -> SUBSET Copies]
         /\ requested' \in [TradeIds -> SUBSET Copies] /\ bereft' \subseteq TradeIds
         /\ \A t \in TradeIds : /\ pins'[t] \subseteq kept[t]
                                /\ \A c \in pins'[t] : place'[c] = place[c]
         /\ \A u \in Users : lent'[u] \subseteq lent[u]
<1>1. place' \in [Copies -> Places]
  BY DEF IInv, TypeOK, CascadeCopies, Places
<1>2. /\ offered' \in [Groups -> SUBSET Copies] /\ lent' \in [Users -> SUBSET Copies]
      /\ \A u \in Users : lent'[u] \subseteq lent[u]
  BY DEF CascadeCopies
<1>3. /\ requested' \in [TradeIds -> SUBSET Copies] /\ bereft' \subseteq TradeIds
  BY DEF IInv, TypeOK, CascadeCopies
<1>4. pins' \in [TradeIds -> SUBSET Copies]
  BY DEF CascadeCopies
<1>5. ASSUME NEW t \in TradeIds
      PROVE  pins'[t] \subseteq kept[t] /\ \A c \in pins'[t] : place'[c] = place[c]
  BY DEF CascadeCopies
<1> QED BY <1>1, <1>2, <1>3, <1>4, <1>5

LEMMA DeletingCopiesReleases ==
  ASSUME IInv, NEW STATE S, NEW STATE kept, kept \in [TradeIds -> SUBSET Copies],
         \A t \in TradeIds : kept[t] \subseteq pins[t],
         DeleteCopies(S, kept)
  PROVE  /\ place' \in [Copies -> Places] /\ offered' \in [Groups -> SUBSET Copies]
         /\ lent' \in [Users -> SUBSET Copies]
         /\ pins' \in [TradeIds -> SUBSET Copies]
         /\ requested' \in [TradeIds -> SUBSET Copies] /\ bereft' \subseteq TradeIds
         /\ \A t \in TradeIds : /\ pins'[t] \subseteq kept[t]
                                /\ \A c \in pins'[t] : place'[c] = place[c]
         /\ \A u \in Users : lent'[u] \subseteq lent[u]
<1>1. offered \in [Groups -> SUBSET Copies] /\ lent \in [Users -> SUBSET Copies]
  BY DEF IInv, TypeOK
<1>2. CascadeCopies(S, kept, offered, lent) /\ \A u \in Users : lent[u] \subseteq lent[u]
  BY DEF DeleteCopies
<1> QED BY <1>1, <1>2, CascadingReleases

(* The giver of a trade that holds copies has an account, and the copies   *)
(* are in the giver's own collections.                                     *)
LEMMA PinnedAtHome ==
  ASSUME ConstantsAssumption, IInv, NEW t \in TradeIds, NEW c \in pins[t]
  PROVE  c \in Copies /\ place[c] = terms[t].giver /\ place[c] \in Users
<1>1. c \in Copies /\ place[c] = terms[t].giver
  BY DEF IInv, TypeOK, PromisedCopyAtHome
<1>2. place[c] \in Places /\ terms[t].giver \in Users \cup {Gone}
  BY <1>1 DEF IInv, TypeOK, Terms
<1> QED BY <1>1, <1>2 DEF ConstantsAssumption, Places

LEMMA AddCopyKeepsIInv ==
  ASSUME ConstantsAssumption, IInv, NEW u \in Users, NEW c \in Copies,
         NEW dest \in Users \cup Groups, AddCopy(u, c, dest)
  PROVE  IInv'
<1>1. /\ place[c] = Nowhere /\ place' = [place EXCEPT ![c] = dest]
      /\ UNCHANGED <<rows, pins, lent>>
  BY DEF AddCopy
<1>2. TypeOK'
  <2>1. place' \in [Copies -> Places]
    BY <1>1 DEF IInv, TypeOK, Places
  <2> QED BY <2>1 DEF IInv, TypeOK, AddCopy, rows, groupVars, history
<1>3. \A t \in TradeIds : \A d \in pins[t] : d \in Copies /\ place[d] \in Users
  BY PinnedAtHome
<1>4. \A t \in TradeIds : \A d \in pins[t] : place'[d] = place[d]
  BY <1>1, <1>3 DEF ConstantsAssumption, IInv, TypeOK
<1>5. OnlyReleases
  BY <1>1, <1>4 DEF rows, OnlyReleases
<1> QED BY <1>2, <1>5, ReleasingKeepsIInv

LEMMA MoveToGroupKeepsIInv ==
  ASSUME ConstantsAssumption, IInv, NEW u \in Users, NEW c \in Copies,
         NEW g \in Groups, MoveToGroup(u, c, g)
  PROVE  IInv'
<1>1. /\ c \notin Pinned /\ place' = [place EXCEPT ![c] = g]
      /\ status' = SweptStatus(u, status) /\ offered' = WithoutEntries(u, c)
      /\ UNCHANGED <<created, terms, settled, pins, lent>>
  BY DEF MoveToGroup, MayMoveToGroup
<1>2. /\ status' \in [TradeIds -> Statuses]
      /\ \A t \in TradeIds : \/ status'[t] = status[t]
                             \/ status[t] = "pending" /\ status'[t] = "cancelled"
  BY <1>1, SweepingReleases
<1>3. place' \in [Copies -> Places] /\ offered' \in [Groups -> SUBSET Copies]
  BY <1>1 DEF IInv, TypeOK, Places, WithoutEntries
<1>4. TypeOK'
  BY <1>2, <1>3 DEF IInv, TypeOK, MoveToGroup, groupVars, history
<1>5. \A t \in TradeIds : \A d \in pins[t] : place'[d] = place[d]
  BY <1>1 DEF IInv, TypeOK, Pinned
<1>6. OnlyReleases
  BY <1>1, <1>2, <1>5, PinnedIsReserved DEF OnlyReleases
<1> QED BY <1>4, <1>6, ReleasingKeepsIInv

(* A promised copy may be moved into a personal collection of the user who *)
(* owns it, which is where it already is.                                  *)
LEMMA MoveToPersonalKeepsIInv ==
  ASSUME ConstantsAssumption, IInv, NEW u \in Users, NEW c \in Copies,
         MoveToPersonal(u, c)
  PROVE  IInv'
<1>1. /\ place[c] \in Writable(u) /\ place' = [place EXCEPT ![c] = u]
      /\ status' = SweptStatus(u, status)
      /\ UNCHANGED <<created, terms, settled, pins, lent>>
  BY DEF MoveToPersonal
<1>2. /\ status' \in [TradeIds -> Statuses]
      /\ \A t \in TradeIds : \/ status'[t] = status[t]
                             \/ status[t] = "pending" /\ status'[t] = "cancelled"
  BY <1>1, SweepingReleases
<1>3. place' \in [Copies -> Places]
  BY <1>1 DEF IInv, TypeOK, Places
<1>4. TypeOK'
  BY <1>2, <1>3 DEF IInv, TypeOK, MoveToPersonal, groupVars, history
<1>5. \A t \in TradeIds : \A d \in pins[t] : place'[d] = place[d]
  <2>1. \A t \in TradeIds : \A d \in pins[t] : d \in Copies /\ place[d] \in Users
    BY PinnedAtHome
  <2>2. place[c] \in Users => place[c] = u
    BY <1>1 DEF ConstantsAssumption, Writable
  <2> QED BY <1>1, <2>1, <2>2 DEF IInv, TypeOK
<1>6. OnlyReleases
  BY <1>1, <1>2, <1>5, PinnedIsReserved DEF OnlyReleases
<1> QED BY <1>4, <1>6, ReleasingKeepsIInv

LEMMA DisposingKeepsIInv ==
  ASSUME ConstantsAssumption, IInv, NEW u \in Users, NEW S \in SUBSET Copies,
         DisposeCopies(u, S) \/ WriteOffLoan(u, S)
  PROVE  IInv'
<1>1. DeleteCopies(S, pins) /\ status' = SweptStatus(u, status) /\ OnlyCopiesDeleted
  BY DEF DisposeCopies, WriteOffLoan
<1>2. pins \in [TradeIds -> SUBSET Copies]
  BY DEF IInv, TypeOK
<1>3. /\ status' \in [TradeIds -> Statuses]
      /\ \A t \in TradeIds : \/ status'[t] = status[t]
                             \/ status[t] = "pending" /\ status'[t] = "cancelled"
  BY <1>1, SweepingReleases
<1>4. TypeOK'
  <2>1. /\ place' \in [Copies -> Places] /\ offered' \in [Groups -> SUBSET Copies]
        /\ lent' \in [Users -> SUBSET Copies] /\ pins' \in [TradeIds -> SUBSET Copies]
        /\ requested' \in [TradeIds -> SUBSET Copies] /\ bereft' \subseteq TradeIds
    BY <1>1, <1>2, DeletingCopiesReleases
  <2> QED BY <1>1, <1>3, <2>1 DEF IInv, TypeOK, OnlyCopiesDeleted, groupVars
<1>5. OnlyReleases
  BY <1>1, <1>2, <1>3, DeletingCopiesReleases, PinnedIsReserved
  DEF OnlyReleases, OnlyCopiesDeleted
<1> QED BY <1>4, <1>5, ReleasingKeepsIInv

LEMMA ResetCollectionsKeepsIInv ==
  ASSUME ConstantsAssumption, IInv, NEW u \in Users, ResetCollections(u)
  PROVE  IInv'
<1>1. /\ DeleteCopies({c \in Copies : place[c] = u}, pins)
      /\ UNCHANGED status /\ OnlyCopiesDeleted
  BY DEF ResetCollections
<1>2. pins \in [TradeIds -> SUBSET Copies]
  BY DEF IInv, TypeOK
<1>4. TypeOK'
  BY <1>1, <1>2, DeletingCopiesReleases
  DEF IInv, TypeOK, OnlyCopiesDeleted, groupVars
<1>5. OnlyReleases
  BY <1>1, <1>2, DeletingCopiesReleases DEF OnlyReleases, OnlyCopiesDeleted
<1> QED BY <1>4, <1>5, ReleasingKeepsIInv

(* A loan takes copies that no trade and no other loan holds.              *)
LEMMA LendCopiesKeepsIInv ==
  ASSUME ConstantsAssumption, IInv, NEW u \in Users, NEW S \in SUBSET Copies,
         LendCopies(u, S)
  PROVE  IInv'
<1>1. /\ S \cap (Pinned \cup Lent) = {} /\ lent' = [lent EXCEPT ![u] = @ \cup S]
      /\ UNCHANGED <<rows, pins, place>>
  BY DEF LendCopies, FreePersonal
<1>2. TypeOK'
  <2>1. lent' \in [Users -> SUBSET Copies]
    BY <1>1 DEF IInv, TypeOK
  <2> QED BY <2>1 DEF IInv, TypeOK, LendCopies, rows, groupVars, history
<1>3. PromisedOnce'
  <2>1. Lent' \subseteq Lent \cup S /\ Pinned' = Pinned
    BY <1>1 DEF IInv, TypeOK, Lent, Pinned
  <2>2. \A v, w \in Users : v # w => lent'[v] \cap lent'[w] = {}
    BY <1>1 DEF IInv, TypeOK, PromisedOnce, Lent
  <2> QED BY <1>1, <2>1, <2>2 DEF IInv, PromisedOnce
<1>4. RowsInOrder' /\ CompletedWhenBothSettled'
  BY <1>1 DEF IInv, RowsInOrder, CompletedWhenBothSettled, rows
<1>5. PinsAreOwed' /\ PromisedCopyAtHome'
  BY <1>1 DEF IInv, PinsAreOwed, OwesCopies, PromisedCopyAtHome, rows
<1> QED BY <1>2, <1>3, <1>4, <1>5 DEF IInv

LEMMA ReturnCopiesKeepsIInv ==
  ASSUME ConstantsAssumption, IInv, NEW u \in Users, NEW S \in SUBSET Copies,
         ReturnCopies(u, S)
  PROVE  IInv'
<1>1. TypeOK'
  BY DEF IInv, TypeOK, ReturnCopies, rows, groupVars, history
<1>2. OnlyReleases
  BY DEF IInv, TypeOK, ReturnCopies, rows, OnlyReleases
<1> QED BY <1>1, <1>2, ReleasingKeepsIInv

-----------------------------------------------------------------------------
(* Lists, members, groups and accounts *)

LEMMA ListingKeepsIInv ==
  ASSUME ConstantsAssumption, IInv, NEW u \in Users,
         \/ \E c \in Copies, g \in Groups : OfferCopy(u, c, g)
         \/ \E c \in Copies : UnlistCopy(u, c)
         \/ \E n \in 0..MaxQuantity : EditWish(u, n)
  PROVE  IInv'
<1>1. UNCHANGED <<rows, pins, place, lent, groupVars, history>>
  BY DEF OfferCopy, UnlistCopy, EditWish
<1>2. offered' \in [Groups -> SUBSET Copies]
  <2>1. \A c \in Copies, g \in Groups :
          OfferCopy(u, c, g) => offered' \in [Groups -> SUBSET Copies]
    BY DEF IInv, TypeOK, OfferCopy
  <2>2. \A c \in Copies : UnlistCopy(u, c) => offered' \in [Groups -> SUBSET Copies]
    BY DEF IInv, TypeOK, UnlistCopy
  <2>3. \A n : EditWish(u, n) => offered' = offered
    BY DEF EditWish
  <2> QED BY <2>1, <2>2, <2>3 DEF IInv, TypeOK
<1>3. wish' \in [Users -> Nat]
  <2>1. \A n \in 0..MaxQuantity : EditWish(u, n) => wish' \in [Users -> Nat]
    BY DEF ConstantsAssumption, IInv, TypeOK, EditWish
  <2>2. \A c, g : OfferCopy(u, c, g) \/ UnlistCopy(u, c) => wish' = wish
    BY DEF OfferCopy, UnlistCopy
  <2> QED BY <2>1, <2>2 DEF IInv, TypeOK
<1>4. TypeOK'
  BY <1>1, <1>2, <1>3 DEF IInv, TypeOK, rows, groupVars, history
<1>5. OnlyReleases
  BY <1>1 DEF rows, OnlyReleases
<1> QED BY <1>4, <1>5, ReleasingKeepsIInv

LEMMA UnshareListKeepsIInv ==
  ASSUME ConstantsAssumption, IInv, NEW u \in Users, NEW g \in Groups,
         UnshareList(u, g)
  PROVE  IInv'
<1>1. /\ status' = SweptStatus(u, status) \/ status' = status
      /\ UNCHANGED <<created, terms, settled, pins, place, lent>>
  BY DEF UnshareList
<1>2. /\ status' \in [TradeIds -> Statuses]
      /\ \A t \in TradeIds : \/ status'[t] = status[t]
                             \/ status[t] = "pending" /\ status'[t] = "cancelled"
  BY <1>1, SweepingReleases DEF IInv, TypeOK
<1>3. offered' \in [Groups -> SUBSET Copies]
  BY DEF IInv, TypeOK, UnshareList
<1>4. TypeOK'
  BY <1>2, <1>3 DEF IInv, TypeOK, UnshareList, groupVars, history
<1>5. OnlyReleases
  BY <1>1, <1>2, PinnedIsReserved DEF OnlyReleases
<1> QED BY <1>4, <1>5, ReleasingKeepsIInv

LEMMA LeaveGroupKeepsIInv ==
  ASSUME ConstantsAssumption, IInv, NEW g \in Groups, NEW u \in Users,
         LeaveGroup(g, u)
  PROVE  IInv'
<1> DEFINE S == Departing(g, u)
<1>1. /\ status' = Cancelled(S) /\ pins' = Released(S)
      /\ UNCHANGED <<created, terms, settled, place, lent>>
  BY DEF LeaveGroup
<1>2. /\ \A t \in S : status[t] \in {"pending", "reserved"}
  BY DEF Departing, HoldsLiveSlot
<1> HIDE DEF S
<1>3. /\ status' \in [TradeIds -> Statuses]
      /\ \A t \in TradeIds : IF t \in S THEN status'[t] = "cancelled"
                                        ELSE status'[t] = status[t]
  BY <1>1 DEF IInv, TypeOK, Cancelled, Statuses, Closed
<1>4. TypeOK'
  <2>1. /\ offered' \in [Groups -> SUBSET Copies] /\ members' \in [Groups -> SUBSET Users]
    BY DEF IInv, TypeOK, LeaveGroup
  <2>2. pins' \in [TradeIds -> SUBSET Copies]
    BY <1>1 DEF IInv, TypeOK, Released
  <2> QED BY <1>3, <2>1, <2>2 DEF IInv, TypeOK, LeaveGroup, history
<1>5. OnlyReleases
  BY <1>1, <1>2, <1>3 DEF OnlyReleases, Released
<1> QED BY <1>4, <1>5, ReleasingKeepsIInv

LEMMA JoinGroupKeepsIInv ==
  ASSUME ConstantsAssumption, IInv, NEW g \in Groups, NEW u \in Users,
         JoinGroup(g, u)
  PROVE  IInv'
<1>1. TypeOK'
  BY DEF IInv, TypeOK, JoinGroup, rows, history
<1>2. OnlyReleases
  BY DEF JoinGroup, rows, OnlyReleases
<1> QED BY <1>1, <1>2, ReleasingKeepsIInv

(* A copy that survives the deletion of a group or a user and is still     *)
(* pinned belongs to a giver whose trade the deletion did not touch.       *)
LEMMA DeleteGroupKeepsIInv ==
  ASSUME ConstantsAssumption, IInv, NEW g \in Groups, DeleteGroup(g)
  PROVE  IInv'
<1> DEFINE S == LiveIn({t \in TradeIds : terms[t].group = g})
           D == {c \in Copies : place[c] = g}
           shared == [offered EXCEPT ![g] = {}]
<1>1. /\ status' = Cancelled(S) /\ CascadeCopies(D, Released(S), shared, lent)
      /\ UNCHANGED <<created, settled>>
  BY DEF DeleteGroup
<1>2. \A t \in S : status[t] \in {"pending", "reserved"}
  BY DEF LiveIn
<1>3. /\ terms' \in [TradeIds -> Terms]
      /\ \A t \in TradeIds : terms'[t].giver = terms[t].giver
  <2>1. terms' = [t \in TradeIds |->
           IF terms[t].group = g THEN [terms[t] EXCEPT !.group = Gone] ELSE terms[t]]
    BY DEF DeleteGroup
  <2>2. ASSUME NEW t \in TradeIds
        PROVE  terms'[t] \in Terms /\ terms'[t].giver = terms[t].giver
    <3>1. terms[t] \in Terms
      BY DEF IInv, TypeOK
    <3> QED BY <2>1, <3>1 DEF Terms
  <2>3. terms' = [t \in TradeIds |-> terms'[t]]
    BY <2>1
  <2> QED BY <2>2, <2>3
<1> HIDE DEF S, D
<1>4. /\ status' \in [TradeIds -> Statuses]
      /\ \A t \in TradeIds : IF t \in S THEN status'[t] = "cancelled"
                                        ELSE status'[t] = status[t]
  BY <1>1 DEF IInv, TypeOK, Cancelled, Statuses, Closed
<1>5. /\ Released(S) \in [TradeIds -> SUBSET Copies]
      /\ \A t \in TradeIds : /\ Released(S)[t] \subseteq pins[t]
                             /\ t \in S => Released(S)[t] = {}
  BY DEF IInv, TypeOK, Released
<1>d. shared \in [Groups -> SUBSET Copies] /\ lent \in [Users -> SUBSET Copies]
  BY DEF IInv, TypeOK
<1> HIDE DEF shared
<1>6. /\ place' \in [Copies -> Places] /\ offered' \in [Groups -> SUBSET Copies]
      /\ lent' \in [Users -> SUBSET Copies] /\ pins' \in [TradeIds -> SUBSET Copies]
      /\ requested' \in [TradeIds -> SUBSET Copies] /\ bereft' \subseteq TradeIds
      /\ \A t \in TradeIds : /\ pins'[t] \subseteq Released(S)[t]
                             /\ \A c \in pins'[t] : place'[c] = place[c]
      /\ \A u \in Users : lent'[u] \subseteq lent[u]
  <2>1. /\ \A t \in TradeIds : Released(S)[t] \subseteq pins[t]
        /\ \A u \in Users : lent[u] \subseteq lent[u]
    BY <1>5
  <2> QED BY <1>1, <1>5, <1>d, <2>1, CascadingReleases
<1>7. TypeOK'
  <2>1. members' \in [Groups -> SUBSET Users]
    BY DEF IInv, TypeOK, DeleteGroup
  <2> QED BY <1>3, <1>4, <1>6, <2>1 DEF IInv, TypeOK, DeleteGroup
<1>8. OnlyReleases
  BY <1>1, <1>2, <1>3, <1>4, <1>5, <1>6 DEF OnlyReleases
<1> QED BY <1>7, <1>8, ReleasingKeepsIInv

LEMMA DeleteUserKeepsIInv ==
  ASSUME ConstantsAssumption, IInv, NEW u \in Users, DeleteUser(u)
  PROVE  IInv'
<1> DEFINE orphaned  == {g \in Groups : members[g] = {u}}
           partyTo   == {t \in TradeIds : u \in {terms[t].giver, terms[t].receiver}}
           S         == LiveIn(partyTo \cup {t \in TradeIds : terms[t].group \in orphaned})
           nulled(x) == IF x = u \/ x \in orphaned THEN Gone ELSE x
           D         == {c \in Copies : place[c] \in {u} \cup orphaned}
           loans     == [lent EXCEPT ![u] = {}]
<1>1. /\ status' = Cancelled(S)
      /\ CascadeCopies(D, Released(S), offered, loans)
      /\ UNCHANGED <<created, settled>>
  BY DEF DeleteUser
<1>2. terms' = [t \in TradeIds |-> [terms[t] EXCEPT !.group = nulled(@),
                                      !.giver = nulled(@), !.receiver = nulled(@)]]
  BY DEF DeleteUser
<1>3. \A t \in S : status[t] \in {"pending", "reserved"}
  BY DEF LiveIn
<1>4. ASSUME NEW t \in TradeIds, pins[t] # {}, t \notin S
      PROVE  terms[t].giver # u /\ terms[t].giver \in Users
  <2>1. t \notin partyTo
    BY <1>4, PinnedIsReserved DEF LiveIn
  <2> QED BY <1>4, <2>1, PinnedAtHome
<1>5. ASSUME NEW t \in TradeIds
      PROVE  /\ terms'[t] \in Terms
             /\ terms'[t].giver = nulled(terms[t].giver)
  <2>1. terms[t] \in Terms
    BY DEF IInv, TypeOK
  <2>2. \A x \in Users \cup Groups \cup {Gone} : nulled(x) \in {x, Gone}
    OBVIOUS
  <2> HIDE DEF nulled
  <2> QED BY <1>2, <2>1, <2>2 DEF Terms
<1>6. terms' \in [TradeIds -> Terms]
  <2>1. terms' = [t \in TradeIds |-> terms'[t]]
    BY <1>2
  <2> QED BY <1>5, <2>1
<1>7. \A t \in TradeIds : pins[t] # {} /\ t \notin S => terms'[t].giver = terms[t].giver
  BY <1>4, <1>5 DEF ConstantsAssumption
<1> HIDE DEF S, D, nulled
<1>8. /\ status' \in [TradeIds -> Statuses]
      /\ \A t \in TradeIds : IF t \in S THEN status'[t] = "cancelled"
                                        ELSE status'[t] = status[t]
  BY <1>1 DEF IInv, TypeOK, Cancelled, Statuses, Closed
<1>d. /\ Released(S) \in [TradeIds -> SUBSET Copies]
      /\ offered \in [Groups -> SUBSET Copies] /\ loans \in [Users -> SUBSET Copies]
      /\ \A t \in TradeIds : /\ Released(S)[t] \subseteq pins[t]
                             /\ t \in S => Released(S)[t] = {}
      /\ \A v \in Users : loans[v] \subseteq lent[v]
  BY DEF IInv, TypeOK, Released
<1> HIDE DEF loans
<1>9. /\ place' \in [Copies -> Places] /\ offered' \in [Groups -> SUBSET Copies]
      /\ lent' \in [Users -> SUBSET Copies] /\ pins' \in [TradeIds -> SUBSET Copies]
      /\ requested' \in [TradeIds -> SUBSET Copies] /\ bereft' \subseteq TradeIds
      /\ \A t \in TradeIds : /\ pins'[t] \subseteq Released(S)[t]
                             /\ \A c \in pins'[t] : place'[c] = place[c]
      /\ \A v \in Users : lent'[v] \subseteq lent[v]
  <2>1. \A t \in TradeIds : Released(S)[t] \subseteq pins[t]
    BY <1>d
  <2> QED BY <1>1, <1>d, <2>1, CascadingReleases
<1>10. TypeOK'
  <2>3. /\ ledger' \subseteq LedgerEntries /\ accounts' \subseteq Users
        /\ members' \in [Groups -> SUBSET Users] /\ wish' \in [Users -> Nat]
    BY DEF IInv, TypeOK, DeleteUser
  <2>4. UNCHANGED <<created, quantity, settled, root, agreed, moved, effects>>
    BY DEF DeleteUser
  <2> QED BY <1>6, <1>8, <1>9, <2>3, <2>4 DEF IInv, TypeOK
<1>11. OnlyReleases
  <2>1. \A t \in TradeIds : \A c \in pins'[t] : place'[c] = place[c]
    BY <1>9
  <2>2. \A v \in Users : lent'[v] \subseteq lent[v]
    BY <1>9
  <2>3. \A t \in TradeIds : pins'[t] \subseteq pins[t] /\ (t \in S => pins'[t] = {})
    BY <1>9, <1>d
  <2>4. \A t \in TradeIds :
          /\ \/ status'[t] = status[t]
             \/ status[t] # "none" /\ status'[t] \in {"declined", "cancelled", "expired"}
          /\ pins'[t] # {} => status'[t] = status[t] /\ t \notin S
    BY <1>3, <1>8, <2>3
  <2>5. \A t \in TradeIds : pins'[t] # {} => terms'[t].giver = terms[t].giver
    BY <1>7, <2>3, <2>4
  <2> QED BY <1>1, <2>1, <2>2, <2>3, <2>4, <2>5 DEF OnlyReleases
<1> QED BY <1>10, <1>11, ReleasingKeepsIInv

-----------------------------------------------------------------------------
(* Settlement *)

(* What every settlement writes: its target is the trade itself or a free  *)
(* row, and the target has the trade's terms and the settled side.         *)
LEMMA ClaimedTarget ==
  ASSUME ConstantsAssumption, IInv, NEW t \in TradeIds, NEW role \in Roles,
         NEW n \in Quantities, NEW r \in Answers, NEW kind \in {"apply", "skip"},
         ClaimSettleTarget(t, role, n, kind, r)
  PROVE  /\ SettleTarget(t, n) \in TradeIds
         /\ status[t] = "reserved" /\ role \notin settled[t]
         /\ SettleTarget(t, n) # t => /\ SettleTarget(t, n) = created + 1
                                      /\ created' = created + 1
                                      /\ status[SettleTarget(t, n)] = "none"
                                      /\ pins[SettleTarget(t, n)] = {}
         /\ SettleTarget(t, n) = t => created' = created
         /\ n \in Nat /\ created' \in 0..MaxTrades
         /\ quantity[t] - n \in Nat
         /\ terms[t].receiver \in Users /\ terms[t].giver \in Users
<1>1. /\ RequireLive(t) /\ status[t] = "reserved" /\ role \notin settled[t]
      /\ n \in 1..quantity[t] /\ (n < quantity[t] => created < MaxTrades)
      /\ created' = IF n < quantity[t] THEN NextId ELSE created
  BY DEF ClaimSettleTarget, MaySettle
<1>2. quantity[t] \in Nat /\ n \in Nat /\ n <= quantity[t] /\ quantity[t] - n \in Nat
  <2>1. quantity[t] \in Nat /\ n \in Nat
    BY DEF ConstantsAssumption, IInv, TypeOK, Quantities
  <2> QED BY <1>1, <2>1
<1>3. created \in 0..MaxTrades /\ MaxTrades \in Nat
  BY DEF ConstantsAssumption, IInv, TypeOK
<1>4. terms[t].receiver \in Users /\ terms[t].giver \in Users
  BY <1>1 DEF IInv, TypeOK, Terms, RequireLive
<1>5. CASE n = quantity[t]
  BY <1>1, <1>2, <1>3, <1>4, <1>5 DEF SettleTarget
<1>6. CASE n # quantity[t]
  <2>1. n < quantity[t] /\ created < MaxTrades
    BY <1>1, <1>2, <1>6
  <2>2. /\ SettleTarget(t, n) = created + 1 /\ created' = created + 1
        /\ NextId = created + 1
    BY <1>1, <1>6, <2>1 DEF SettleTarget, NextId
  <2>3. /\ NextId \in TradeIds /\ status[NextId] = "none" /\ pins[NextId] = {}
    BY <2>1, NextRowIsFree
  <2> QED BY <1>1, <1>2, <1>3, <1>4, <2>1, <2>2, <2>3
<1> QED BY <1>5, <1>6

LEMMA ClaimedTypes ==
  ASSUME ConstantsAssumption, IInv, NEW t \in TradeIds, NEW role \in Roles,
         NEW n \in Quantities, NEW r \in Answers, NEW kind \in {"apply", "skip"},
         ClaimSettleTarget(t, role, n, kind, r)
  PROVE  /\ created' \in 0..MaxTrades /\ terms' \in [TradeIds -> Terms]
         /\ quantity' \in [TradeIds -> Nat]
         /\ settled' \in [TradeIds -> SUBSET Roles]
         /\ ledger' \subseteq LedgerEntries /\ root' \in [TradeIds -> TradeIds]
         /\ effects' \in [Requests -> Seq(Settlements)]
         /\ UNCHANGED <<agreed, members, accounts>>
<1> DEFINE s == SettleTarget(t, n)
<1>1. /\ s \in TradeIds /\ n \in Nat /\ created' \in 0..MaxTrades
      /\ quantity[t] - n \in Nat
      /\ terms[t].receiver \in Users /\ terms[t].giver \in Users
  BY ClaimedTarget
<1>2. /\ terms' = [terms EXCEPT ![s] = terms[t]]
      /\ quantity' = [quantity EXCEPT ![t] = @ - n, ![s] = n]
      /\ settled' = [settled EXCEPT ![s] = settled[t] \cup {role}]
      /\ ledger' = IF r \in Requests
                     THEN ledger \cup {LedgerEntry(t, role, n, r)} ELSE ledger
      /\ root' = [root EXCEPT ![s] = root[t]]
      /\ UNCHANGED <<agreed, members, accounts>>
  BY DEF ClaimSettleTarget, QuantityAfter, SidesAfter, groupVars
<1>3. effects' = IF r \in Requests
           THEN [effects EXCEPT ![r] =
                   Append(@, [trade |-> t, role |-> role, kind |-> kind, n |-> n])]
           ELSE effects
  BY DEF ClaimSettleTarget
<1> HIDE DEF s
<1>4. terms' \in [TradeIds -> Terms] /\ root' \in [TradeIds -> TradeIds]
  BY <1>1, <1>2 DEF IInv, TypeOK
<1>5. quantity' \in [TradeIds -> Nat] /\ settled' \in [TradeIds -> SUBSET Roles]
  BY <1>1, <1>2 DEF IInv, TypeOK
<1>6. ledger' \subseteq LedgerEntries
  <2>1. r \in Requests => LedgerEntry(t, role, n, r) \in LedgerEntries
    BY <1>1 DEF LedgerEntries, LedgerEntry, Party, s
  <2> QED BY <1>2, <2>1 DEF IInv, TypeOK
<1>7. effects' \in [Requests -> Seq(Settlements)]
  <2> DEFINE e == [trade |-> t, role |-> role, kind |-> kind, n |-> n]
  <2>1. e \in Settlements
    BY <1>1 DEF Settlements
  <2> HIDE DEF e
  <2>2. effects \in [Requests -> Seq(Settlements)]
    BY DEF IInv, TypeOK
  <2>3. r \in Requests => Append(effects[r], e) \in Seq(Settlements)
    BY <2>1, <2>2
  <2> QED BY <1>3, <2>2, <2>3 DEF e
<1> QED BY <1>1, <1>2, <1>4, <1>5, <1>6, <1>7

(* The frame of the three settlements: the target takes the pins M from    *)
(* the trade, keeps them only for a receiver, and no pinned copy moves.    *)
SettlesWith(t, role, s, M) ==
  /\ settled' = [settled EXCEPT ![s] = settled[t] \cup {role}]
  /\ terms' = [terms EXCEPT ![s] = terms[t]]
  /\ status'[s] = IF settled[t] \cup {role} = Roles THEN "completed" ELSE "reserved"
  /\ \A u \in TradeIds : u # s =>
       \/ status'[u] = status[u]
       \/ status[u] = "pending" /\ status'[u] = "cancelled"
  /\ M \subseteq pins[t] /\ pins'[s] \subseteq M
  /\ role = "giver" => pins'[s] = {}
  /\ \A u \in TradeIds : u # s => pins'[u] \subseteq pins[u]
  /\ s # t => pins'[t] \subseteq pins[t] \ M
  /\ \A u \in TradeIds : \A c \in pins'[u] : place'[c] = place[c]
  /\ \A u \in Users : lent'[u] \subseteq lent[u]

(* The target is the trade itself or a row that has not been used yet.     *)
TakesRow(t, s) ==
  /\ s = t => created' = created
  /\ s # t => /\ s = created + 1 /\ created' = created + 1
              /\ status[s] = "none" /\ pins[s] = {}

LEMMA SettlingKeepsIInv ==
  ASSUME ConstantsAssumption, IInv, TypeOK', NEW t \in TradeIds, NEW role \in Roles,
         NEW s \in TradeIds, NEW M, SettlesWith(t, role, s, M),
         status[t] = "reserved", role \notin settled[t], TakesRow(t, s)
  PROVE  IInv'
<1>r. /\ s = t => created' = created
      /\ s # t => /\ s = created + 1 /\ created' = created + 1
                  /\ status[s] = "none" /\ pins[s] = {}
  BY DEF TakesRow
<1> USE <1>r
<1> DEFINE after == settled[t] \cup {role}
<1>0. /\ settled'[s] = after /\ terms'[s] = terms[t] /\ after \in SUBSET Roles
      /\ \A u \in TradeIds : /\ settled[u] \in SUBSET Roles
                             /\ u # s => /\ settled'[u] = settled[u]
                                         /\ terms'[u] = terms[u]
  <2>1. /\ settled \in [TradeIds -> SUBSET Roles] /\ terms \in [TradeIds -> Terms]
        /\ settled[t] \cup {role} \in SUBSET Roles
    BY DEF IInv, TypeOK
  <2>2. /\ settled' = [settled EXCEPT ![s] = settled[t] \cup {role}]
        /\ terms' = [terms EXCEPT ![s] = terms[t]]
    BY DEF SettlesWith
  <2> QED BY <2>1, <2>2
<1>s. /\ status'[s] = IF after = Roles THEN "completed" ELSE "reserved"
      /\ \A u \in TradeIds : u # s =>
           status'[u] = status[u] \/ (status[u] = "pending" /\ status'[u] = "cancelled")
  BY DEF SettlesWith
<1>p. /\ M \subseteq pins[t] /\ pins'[s] \subseteq M
      /\ role = "giver" => pins'[s] = {}
      /\ \A u \in TradeIds : u # s => pins'[u] \subseteq pins[u]
  BY DEF SettlesWith
<1> HIDE DEF after
<1>1. RowsInOrder'
  <2>1. created \in Nat /\ \A u \in TradeIds : status[u] = "none" <=> created < u
    <3>1. created \in Nat
      BY DEF ConstantsAssumption, IInv, TypeOK
    <3> QED BY <3>1 DEF IInv, RowsInOrder
  <2>2. status'[s] # "none" /\ \A u \in TradeIds : u # s =>
          (status'[u] = "none" <=> status[u] = "none")
    BY DEF SettlesWith
  <2>3. ASSUME NEW u \in TradeIds
        PROVE  status'[u] = "none" <=> created' < u
    <3>1. CASE s = t
      BY <2>1, <2>2, <3>1
    <3>2. CASE s # t
      BY <2>1, <2>2, <3>2
    <3> QED BY <3>1, <3>2
  <2> QED BY <2>3 DEF RowsInOrder
<1>2. CompletedWhenBothSettled'
  <2>1. /\ \A u \in TradeIds : status[u] = "completed" => settled[u] = Roles
        /\ \A u \in TradeIds : status[u] = "reserved" => settled[u] # Roles
        /\ \A u \in TradeIds : status[u] \in {"none", "pending"} => settled[u] = {}
    BY DEF IInv, CompletedWhenBothSettled
  <2>2. ASSUME NEW u \in TradeIds
        PROVE  /\ status'[u] = "completed" => settled'[u] = Roles
               /\ status'[u] = "reserved" => settled'[u] # Roles
               /\ status'[u] \in {"none", "pending"} => settled'[u] = {}
    <3>1. CASE u = s
      BY <1>0, <1>s, <3>1
    <3>2. CASE u # s
      BY <1>0, <1>s, <2>1, <3>2
    <3> QED BY <3>1, <3>2
  <2> QED BY <2>2 DEF CompletedWhenBothSettled
<1>3. PinsAreOwed'
  <2>1. pins[t] # {} => "giver" \notin settled[t]
    BY DEF IInv, PinsAreOwed, OwesCopies
  <2>2. ASSUME pins'[s] # {}
        PROVE  status'[s] = "reserved" /\ "giver" \notin settled'[s]
    <3>1. role # "giver" /\ "giver" \notin settled[t]
      BY <1>p, <2>1, <2>2
    <3>2. "giver" \notin after
      BY <3>1 DEF after
    <3> QED BY <1>0, <1>s, <3>2
  <2>3. ASSUME NEW u \in TradeIds, u # s, pins'[u] # {}
        PROVE  status'[u] = "reserved" /\ "giver" \notin settled'[u]
    <3>1. status[u] = "reserved" /\ "giver" \notin settled[u]
      BY <1>p, <2>3 DEF IInv, PinsAreOwed, OwesCopies
    <3> QED BY <1>0, <1>s, <2>3, <3>1
  <2> QED BY <2>2, <2>3 DEF PinsAreOwed, OwesCopies
<1>4. PromisedOnce'
  <2>1. pins'[s] \subseteq pins[t] /\ \A u \in TradeIds : u # s => pins'[u] \subseteq pins[u]
    BY <1>p
  <2>2. \A u, v \in TradeIds : u # v => pins'[u] \cap pins'[v] = {}
    <3>1. \A u, v \in TradeIds : u # v => pins[u] \cap pins[v] = {}
      BY DEF IInv, PromisedOnce
    <3>2. ASSUME NEW u \in TradeIds, u # s
          PROVE  pins'[u] \cap pins'[s] = {}
      <4>1. CASE u = t
        BY <3>2, <4>1 DEF SettlesWith
      <4>2. CASE u # t
        BY <2>1, <3>1, <3>2, <4>2
      <4> QED BY <4>1, <4>2
    <3>3. ASSUME NEW u \in TradeIds, NEW v \in TradeIds, u # v, u # s, v # s
          PROVE  pins'[u] \cap pins'[v] = {}
      BY <2>1, <3>1, <3>3
    <3> QED BY <3>2, <3>3
  <2>3. Pinned' \subseteq Pinned
    <3>1. ASSUME NEW u \in TradeIds
          PROVE  pins'[u] \subseteq Pinned
      <4>1. CASE u = s
        BY <2>1, <4>1 DEF Pinned
      <4>2. CASE u # s
        BY <2>1, <4>2 DEF Pinned
      <4> QED BY <4>1, <4>2
    <3> QED BY <3>1 DEF Pinned
  <2>4. Lent' \subseteq Lent /\ \A u, v \in Users : u # v => lent'[u] \cap lent'[v] = {}
    <3>1. \A u \in Users : lent'[u] \subseteq lent[u]
      BY DEF SettlesWith
    <3>2. \A u, v \in Users : u # v => lent[u] \cap lent[v] = {}
      BY DEF IInv, PromisedOnce
    <3>3. ASSUME NEW u \in Users
          PROVE  lent'[u] \subseteq Lent
      BY <3>1 DEF Lent
    <3>4. Lent' \subseteq Lent
      BY <3>3 DEF Lent
    <3>5. ASSUME NEW u \in Users, NEW v \in Users, u # v
          PROVE  lent'[u] \cap lent'[v] = {}
      BY <3>1, <3>2, <3>5
    <3> QED BY <3>4, <3>5
  <2>5. Pinned \cap Lent = {}
    BY DEF IInv, PromisedOnce
  <2> QED BY <2>2, <2>3, <2>4, <2>5 DEF PromisedOnce
<1>5. PromisedCopyAtHome'
  <2>1. \A c \in pins[t] : place[c] = terms[t].giver
    BY DEF IInv, PromisedCopyAtHome
  <2>2. \A c \in pins'[s] : place'[c] = terms'[s].giver
    BY <1>0, <1>p, <2>1 DEF SettlesWith
  <2>3. \A u \in TradeIds : u # s => \A c \in pins'[u] : place'[c] = terms'[u].giver
    BY <1>0, <1>p DEF IInv, PromisedCopyAtHome, SettlesWith
  <2> QED BY <2>2, <2>3 DEF PromisedCopyAtHome
<1> QED BY <1>1, <1>2, <1>3, <1>4, <1>5 DEF IInv

(* The settled part's pins, as they leave the trade.                       *)
LEMMA SplitPinsMove ==
  ASSUME ConstantsAssumption, IInv, NEW t \in TradeIds, NEW n \in Nat,
         NEW M \in SUBSET pins[t], SettleTarget(t, n) \in TradeIds
  PROVE  /\ PinsAfterSplit(t, n, M) \in [TradeIds -> SUBSET Copies]
         /\ PinsAfterSplit(t, n, M)[SettleTarget(t, n)] = M
         /\ SettleTarget(t, n) # t => PinsAfterSplit(t, n, M)[t] = pins[t] \ M
         /\ \A u \in TradeIds : u # SettleTarget(t, n) =>
              PinsAfterSplit(t, n, M)[u] \subseteq pins[u]
         /\ GiverPins(t, n, M) \in [TradeIds -> SUBSET Copies]
         /\ GiverPins(t, n, M)[SettleTarget(t, n)] = {}
         /\ SettleTarget(t, n) # t => GiverPins(t, n, M)[t] = pins[t] \ M
         /\ \A u \in TradeIds : u # SettleTarget(t, n) =>
              GiverPins(t, n, M)[u] \subseteq pins[u]
<1> DEFINE s == SettleTarget(t, n)
<1> HIDE DEF s
<1>1. s \in TradeIds /\ pins \in [TradeIds -> SUBSET Copies]
  BY DEF IInv, TypeOK, s
<1>2. /\ PinsAfterSplit(t, n, M) = [pins EXCEPT ![t] = @ \ M, ![s] = M]
      /\ GiverPins(t, n, M) = [PinsAfterSplit(t, n, M) EXCEPT ![s] = {}]
  BY DEF PinsAfterSplit, GiverPins, s
<1>3. /\ PinsAfterSplit(t, n, M) \in [TradeIds -> SUBSET Copies]
      /\ PinsAfterSplit(t, n, M)[s] = M
      /\ s # t => PinsAfterSplit(t, n, M)[t] = pins[t] \ M
      /\ \A u \in TradeIds : u # s => PinsAfterSplit(t, n, M)[u] \subseteq pins[u]
  <2> DEFINE after == PinsAfterSplit(t, n, M)
  <2> HIDE DEF after
  <2>1. after = [pins EXCEPT ![t] = @ \ M, ![s] = M]
    BY <1>2 DEF after
  <2>2. M \in SUBSET Copies /\ pins[t] \ M \in SUBSET Copies
    BY <1>1
  <2>3. after \in [TradeIds -> SUBSET Copies] /\ after[s] = M
    BY <1>1, <2>1, <2>2
  <2>4. \A u \in TradeIds : u # s => after[u] = IF u = t THEN pins[t] \ M ELSE pins[u]
    BY <1>1, <2>1
  <2> QED BY <2>3, <2>4 DEF after
<1>4. /\ GiverPins(t, n, M) \in [TradeIds -> SUBSET Copies]
      /\ GiverPins(t, n, M)[s] = {}
      /\ s # t => GiverPins(t, n, M)[t] = pins[t] \ M
      /\ \A u \in TradeIds : u # s => GiverPins(t, n, M)[u] \subseteq pins[u]
  BY <1>1, <1>2, <1>3
<1> QED BY <1>3, <1>4 DEF s

LEMMA SettledStatusOfTarget ==
  ASSUME IInv, NEW t \in TradeIds, NEW role \in Roles, NEW n \in Nat,
         SettleTarget(t, n) \in TradeIds
  PROVE  /\ SettledStatus(t, role, n) \in [TradeIds -> Statuses]
         /\ SettledStatus(t, role, n)[SettleTarget(t, n)] =
              IF settled[t] \cup {role} = Roles THEN "completed" ELSE "reserved"
         /\ \A u \in TradeIds : u # SettleTarget(t, n) =>
              SettledStatus(t, role, n)[u] = status[u]
BY DEF IInv, TypeOK, SettledStatus, SidesAfter, Statuses, Closed

LEMMA MovedTypes ==
  ASSUME IInv, NEW t \in TradeIds, NEW role \in Roles, NEW n \in Nat
  PROVE  Moved(t, role, n) \in [TradeIds -> [Roles -> Nat]]
<1>1. root[t] \in TradeIds /\ moved \in [TradeIds -> [Roles -> Nat]]
  BY DEF IInv, TypeOK
<1> QED BY <1>1 DEF Moved

LEMMA MovedAtMost ==
  ASSUME IInv, NEW t \in TradeIds, NEW role \in Roles, NEW k \in Nat, NEW n \in Nat,
         k <= n, moved' = Moved(t, role, k) \/ moved' = moved
  PROVE  \A u \in TradeIds, r \in Roles :
           /\ moved'[u][r] <= moved[u][r] + n
           /\ u # root[t] \/ r # role => moved'[u][r] = moved[u][r]
<1>1. root[t] \in TradeIds /\ moved \in [TradeIds -> [Roles -> Nat]]
  BY DEF IInv, TypeOK
<1>2. \A u \in TradeIds, r \in Roles : moved[u][r] \in Nat
  BY <1>1
<1>3. CASE moved' = moved
  BY <1>2, <1>3
<1>4. CASE moved' = Moved(t, role, k)
  <2>1. \A u \in TradeIds, r \in Roles :
          moved'[u][r] = IF u = root[t] /\ r = role THEN moved[u][r] + k ELSE moved[u][r]
    BY <1>1, <1>4 DEF Moved
  <2> QED BY <1>2, <2>1
<1> QED BY <1>3, <1>4

LEMMA SkipSyncKeepsIInv ==
  ASSUME ConstantsAssumption, IInv, NEW t \in TradeIds, NEW role \in Roles,
         NEW n \in Quantities, NEW r \in Answers, SkipSync(t, role, n, r)
  PROVE  IInv'
<1> DEFINE s == SettleTarget(t, n)
<1>1. /\ ClaimSettleTarget(t, role, n, "skip", r)
      /\ status' = SettledStatus(t, role, n)
      /\ UNCHANGED <<requested, place, offered, lent, wish, moved, bereft>>
  BY DEF SkipSync
<1>2. PICK M \in SUBSET pins[t] :
        pins' = IF role = "giver" THEN GiverPins(t, n, M) ELSE PinsAfterSplit(t, n, M)
  BY DEF SkipSync, SplitPins
<1>3. /\ s \in TradeIds /\ n \in Nat /\ status[t] = "reserved" /\ role \notin settled[t]
      /\ s = t => created' = created
      /\ s # t => /\ s = created + 1 /\ created' = created + 1
                  /\ status[s] = "none" /\ pins[s] = {}
  BY <1>1, ClaimedTarget
<1>c. /\ SettledStatus(t, role, n) \in [TradeIds -> Statuses]
      /\ SettledStatus(t, role, n)[s] =
           IF settled[t] \cup {role} = Roles THEN "completed" ELSE "reserved"
      /\ \A u \in TradeIds : u # s => SettledStatus(t, role, n)[u] = status[u]
  BY <1>3, SettledStatusOfTarget
<1>d. /\ pins' \in [TradeIds -> SUBSET Copies]
      /\ pins'[s] \subseteq M /\ (role = "giver" => pins'[s] = {})
      /\ \A u \in TradeIds : u # s => pins'[u] \subseteq pins[u]
      /\ s # t => pins'[t] \subseteq pins[t] \ M
  <2>1. CASE role = "giver"
    BY <1>2, <1>3, <2>1, SplitPinsMove
  <2>2. CASE role # "giver"
    BY <1>2, <1>3, <2>2, SplitPinsMove
  <2> QED BY <2>1, <2>2
<1>4. TypeOK'
  <2>1. pins' \in [TradeIds -> SUBSET Copies] /\ status' \in [TradeIds -> Statuses]
    BY <1>1, <1>c, <1>d
  <2>2. /\ created' \in 0..MaxTrades /\ terms' \in [TradeIds -> Terms]
        /\ quantity' \in [TradeIds -> Nat]
        /\ settled' \in [TradeIds -> SUBSET Roles]
        /\ ledger' \subseteq LedgerEntries /\ root' \in [TradeIds -> TradeIds]
        /\ effects' \in [Requests -> Seq(Settlements)]
        /\ UNCHANGED <<agreed, members, accounts>>
    BY <1>1, ClaimedTypes
  <2> QED BY <1>1, <2>1, <2>2 DEF IInv, TypeOK
<1>5. SettlesWith(t, role, s, M)
  <2>1. /\ settled' = [settled EXCEPT ![s] = settled[t] \cup {role}]
        /\ terms' = [terms EXCEPT ![s] = terms[t]]
    BY <1>1 DEF ClaimSettleTarget, SidesAfter
  <2>2. /\ status'[s] = IF settled[t] \cup {role} = Roles THEN "completed" ELSE "reserved"
        /\ \A u \in TradeIds : u # s => status'[u] = status[u]
    BY <1>1, <1>c
  <2>3. /\ pins'[s] \subseteq M /\ (role = "giver" => pins'[s] = {})
        /\ \A u \in TradeIds : u # s => pins'[u] \subseteq pins[u]
        /\ s # t => pins'[t] \subseteq pins[t] \ M
    BY <1>d
  <2>4. place' = place /\ lent' = lent
    BY <1>1
  <2> QED BY <2>1, <2>2, <2>3, <2>4 DEF SettlesWith
<1>t. TakesRow(t, s)
  BY <1>3 DEF TakesRow
<1> QED BY <1>3, <1>4, <1>5, <1>t, SettlingKeepsIInv

(* A receiver's new copies are rows nobody refers to yet.                  *)
LEMMA ApplyReceiverKeepsIInv ==
  ASSUME ConstantsAssumption, IInv, NEW t \in TradeIds, NEW n \in Quantities,
         NEW fresh, NEW dest \in Users \cup Groups, NEW r \in Answers,
         ApplyReceiver(t, n, fresh, dest, r)
  PROVE  IInv'
<1> DEFINE s == SettleTarget(t, n)
<1>1. /\ ClaimSettleTarget(t, "receiver", n, "apply", r)
      /\ \A c \in fresh : place[c] = Nowhere
      /\ place' = [c \in Copies |-> IF c \in fresh THEN dest ELSE place[c]]
      /\ status' = SettledStatus(t, "receiver", n)
      /\ moved' = Moved(t, "receiver", n)
      /\ UNCHANGED <<offered, lent, requested, bereft>>
  BY DEF ApplyReceiver
<1>2. PICK M \in SUBSET pins[t] : pins' = PinsAfterSplit(t, n, M)
  BY DEF ApplyReceiver, SplitPins
<1>3. /\ s \in TradeIds /\ n \in Nat /\ status[t] = "reserved" /\ "receiver" \notin settled[t]
      /\ s = t => created' = created
      /\ s # t => /\ s = created + 1 /\ created' = created + 1
                  /\ status[s] = "none" /\ pins[s] = {}
      /\ terms[t].receiver \in Users
  BY <1>1, ClaimedTarget
<1>4. TypeOK'
  <2>1. pins' \in [TradeIds -> SUBSET Copies] /\ status' \in [TradeIds -> Statuses]
    BY <1>1, <1>2, <1>3, SplitPinsMove, SettledStatusOfTarget
  <2>2. wish' \in [Users -> Nat]
    <3>1. wish \in [Users -> Nat]
      BY DEF IInv, TypeOK
    <3>2. wish' = [wish EXCEPT ![terms[t].receiver] = IF @ > n THEN @ - n ELSE 0]
      BY DEF ApplyReceiver
    <3> QED BY <1>3, <3>1, <3>2
  <2>3. place' \in [Copies -> Places] /\ moved' \in [TradeIds -> [Roles -> Nat]]
    <3>1. moved' \in [TradeIds -> [Roles -> Nat]]
      BY <1>1, <1>3, MovedTypes
    <3>2. place \in [Copies -> Places] /\ dest \in Places
      BY DEF IInv, TypeOK, Places
    <3> QED BY <1>1, <3>1, <3>2
  <2> QED BY <1>1, <2>1, <2>2, <2>3, ClaimedTypes DEF IInv, TypeOK
<1>5. SettlesWith(t, "receiver", s, M)
  <2>1. /\ settled' = [settled EXCEPT ![s] = settled[t] \cup {"receiver"}]
        /\ terms' = [terms EXCEPT ![s] = terms[t]]
    BY <1>1 DEF ClaimSettleTarget, SidesAfter
  <2>2. /\ status'[s] = IF settled[t] \cup {"receiver"} = Roles THEN "completed"
                                                               ELSE "reserved"
        /\ \A u \in TradeIds : u # s => status'[u] = status[u]
    BY <1>1, <1>3, SettledStatusOfTarget
  <2>3. /\ pins'[s] = M /\ \A u \in TradeIds : u # s => pins'[u] \subseteq pins[u]
        /\ s # t => pins'[t] \subseteq pins[t] \ M
    BY <1>2, <1>3, SplitPinsMove
  <2>4. \A u \in TradeIds : \A c \in pins'[u] : place'[c] = place[c]
    <3>1. ASSUME NEW u \in TradeIds, NEW c \in pins'[u]
          PROVE  c \in Copies /\ place[c] \in Users
      <4>1. \E v \in TradeIds : c \in pins[v]
        BY <2>3, <3>1
      <4> QED BY <4>1, PinnedAtHome
    <3>2. Nowhere \notin Users
      BY DEF ConstantsAssumption
    <3> QED BY <1>1, <3>1, <3>2
  <2> QED BY <1>1, <2>1, <2>2, <2>3, <2>4 DEF SettlesWith
<1>t. TakesRow(t, s)
  BY <1>3 DEF TakesRow
<1> QED BY <1>3, <1>4, <1>5, <1>t, SettlingKeepsIInv

LEMMA ApplyGiverKeepsIInv ==
  ASSUME ConstantsAssumption, IInv, NEW t \in TradeIds, NEW n \in Quantities,
         NEW chosen \in SUBSET Copies, NEW r \in Answers, ApplyGiver(t, n, chosen, r)
  PROVE  IInv'
<1> DEFINE s == SettleTarget(t, n)
           st == SettledStatus(t, "giver", n)
<1>1. ClaimSettleTarget(t, "giver", n, "apply", r) /\ UNCHANGED wish
  BY DEF ApplyGiver
<1>2. PICK M \in SUBSET pins[t], disposed \in SUBSET Copies :
        /\ DeleteCopies(disposed, GiverPins(t, n, M))
        /\ moved' = Moved(t, "giver", Cardinality(disposed))
        /\ status' = st \/ status' = SweptStatus(terms[t].giver, st)
  BY DEF ApplyGiver, SplitPins, IInv, TypeOK
<1>3. /\ s \in TradeIds /\ n \in Nat /\ status[t] = "reserved" /\ "giver" \notin settled[t]
      /\ s = t => created' = created
      /\ s # t => /\ s = created + 1 /\ created' = created + 1
                  /\ status[s] = "none" /\ pins[s] = {}
  BY <1>1, ClaimedTarget
<1>4. /\ st \in [TradeIds -> Statuses]
      /\ st[s] = IF settled[t] \cup {"giver"} = Roles THEN "completed" ELSE "reserved"
      /\ \A u \in TradeIds : u # s => st[u] = status[u]
  BY <1>3, SettledStatusOfTarget
<1> HIDE DEF s, st
<1>5. /\ status' \in [TradeIds -> Statuses]
      /\ \A u \in TradeIds :
           status'[u] = st[u] \/ (st[u] = "pending" /\ status'[u] = "cancelled")
  BY <1>2, <1>4, SweptStatusClosesPending
<1>6. /\ GiverPins(t, n, M) \in [TradeIds -> SUBSET Copies]
      /\ GiverPins(t, n, M)[s] = {}
      /\ s # t => GiverPins(t, n, M)[t] = pins[t] \ M
      /\ \A u \in TradeIds : u # s => GiverPins(t, n, M)[u] \subseteq pins[u]
  BY <1>3, SplitPinsMove DEF s
<1>7. \A u \in TradeIds : GiverPins(t, n, M)[u] \subseteq pins[u]
  BY <1>6
<1>8. /\ place' \in [Copies -> Places] /\ offered' \in [Groups -> SUBSET Copies]
      /\ lent' \in [Users -> SUBSET Copies] /\ pins' \in [TradeIds -> SUBSET Copies]
      /\ requested' \in [TradeIds -> SUBSET Copies] /\ bereft' \subseteq TradeIds
      /\ \A u \in TradeIds : /\ pins'[u] \subseteq GiverPins(t, n, M)[u]
                             /\ \A c \in pins'[u] : place'[c] = place[c]
      /\ \A u \in Users : lent'[u] \subseteq lent[u]
  BY <1>2, <1>6, <1>7, DeletingCopiesReleases
<1>9. TypeOK'
  <2>1. Cardinality(disposed) \in Nat
    BY FS_Subset, FS_CardinalityType DEF ConstantsAssumption
  <2>2. moved' \in [TradeIds -> [Roles -> Nat]]
    BY <1>2, <2>1, MovedTypes
  <2> QED BY <1>1, <1>5, <1>8, <2>2, ClaimedTypes DEF IInv, TypeOK
<1>10. SettlesWith(t, "giver", s, M)
  <2>1. /\ settled' = [settled EXCEPT ![s] = settled[t] \cup {"giver"}]
        /\ terms' = [terms EXCEPT ![s] = terms[t]]
    BY <1>1 DEF ClaimSettleTarget, SidesAfter, s
  <2>2. /\ status'[s] = IF settled[t] \cup {"giver"} = Roles THEN "completed" ELSE "reserved"
        /\ \A u \in TradeIds : u # s =>
             status'[u] = status[u] \/ (status[u] = "pending" /\ status'[u] = "cancelled")
    BY <1>3, <1>4, <1>5
  <2>3. /\ pins'[s] = {} /\ \A u \in TradeIds : u # s => pins'[u] \subseteq pins[u]
        /\ s # t => pins'[t] \subseteq pins[t] \ M
    BY <1>3, <1>6, <1>8
  <2> QED BY <1>8, <2>1, <2>2, <2>3 DEF SettlesWith
<1>t. TakesRow(t, s)
  BY <1>3 DEF TakesRow
<1> QED BY <1>3, <1>9, <1>10, <1>t, SettlingKeepsIInv

-----------------------------------------------------------------------------
(* The theorems *)

LEMMA AskingKeepsIInv == ASSUME ConstantsAssumption, IInv, Asking PROVE IInv'
<1>1. ASSUME NEW g \in Groups, NEW giver \in Users, NEW receiver \in Users,
             NEW initiator \in Roles, NEW n \in Quantities, NEW names \in NamedSets,
             CreateTrade(g, giver, receiver, initiator, n, names)
      PROVE  IInv'
  BY <1>1, CreateTradeKeepsIInv DEF NamedSets
<1>2. ASSUME NEW t \in TradeIds, NEW n \in Quantities, SetTradeQuantity(t, n)
      PROVE  IInv'
  BY <1>2, SetTradeQuantityKeepsIInv
<1>3. ASSUME NEW t \in TradeIds, CancelTrade(t)
      PROVE  IInv'
  BY <1>3, AnswersKeepIInv
<1> QED BY <1>1, <1>2, <1>3 DEF Asking

LEMMA AnsweringKeepsIInv == ASSUME ConstantsAssumption, IInv, Answering PROVE IInv'
<1>1. ASSUME NEW t \in TradeIds, NEW P \in SUBSET Copies, AcceptTrade(t, P)
      PROVE  IInv'
  BY <1>1, AcceptTradeKeepsIInv
<1>2. ASSUME NEW t \in TradeIds,
             AcceptVanished(t) \/ AcceptNamedGone(t) \/ DeclineTrade(t)
      PROVE  IInv'
  BY <1>2, AcceptVanishedKeepsIInv, AnswersKeepIInv
<1>3. ASSUME NEW S \in SUBSET TradeIds, ExpirePending(S)
      PROVE  IInv'
  BY <1>3, ExpirePendingKeepsIInv
<1> QED BY <1>1, <1>2, <1>3 DEF Answering

LEMMA SettlementsKeepIInv == ASSUME ConstantsAssumption, IInv, Settling PROVE IInv'
<1>1. ASSUME NEW t \in TradeIds, NEW n \in Quantities, NEW r \in Answers,
             NEW chosen \in SUBSET Copies, ApplyGiver(t, n, chosen, r)
      PROVE  IInv'
  BY <1>1, ApplyGiverKeepsIInv
<1>2. ASSUME NEW t \in TradeIds, NEW n \in Quantities, NEW r \in Answers,
             NEW fresh \in FreshCopies(n), NEW dest \in Users \cup Groups,
             ApplyReceiver(t, n, fresh, dest, r)
      PROVE  IInv'
  BY <1>2, ApplyReceiverKeepsIInv
<1>3. ASSUME NEW t \in TradeIds, NEW n \in Quantities, NEW r \in Answers,
             NEW role \in Roles, SkipSync(t, role, n, r)
      PROVE  IInv'
  BY <1>3, SkipSyncKeepsIInv
<1>4. \A t \in TradeIds : Deliverable(t) \subseteq Copies
  BY DEF IInv, TypeOK, Deliverable, FreePersonal
<1> QED BY <1>1, <1>2, <1>3, <1>4 DEF Settling, Reserved

LEMMA CollectingKeepsIInv ==
  ASSUME ConstantsAssumption, IInv, Collecting \/ Adding \/ Lending
  PROVE  IInv'
<1>1. Collectors \subseteq Users
  BY DEF ConstantsAssumption
<1>2. ASSUME NEW u \in Users, NEW c \in Copies, NEW g \in Groups,
             MoveToGroup(u, c, g)
      PROVE  IInv'
  BY <1>2, MoveToGroupKeepsIInv
<1>3. ASSUME NEW u \in Users, NEW c \in Copies, MoveToPersonal(u, c)
      PROVE  IInv'
  BY <1>3, MoveToPersonalKeepsIInv
<1>4. ASSUME NEW u \in Users, NEW S \in SUBSET Copies,
             DisposeCopies(u, S) \/ WriteOffLoan(u, S)
      PROVE  IInv'
  BY <1>4, DisposingKeepsIInv
<1>5. ASSUME NEW u \in Users, ResetCollections(u)
      PROVE  IInv'
  BY <1>5, ResetCollectionsKeepsIInv
<1>6. ASSUME NEW u \in Users, NEW c \in Copies, NEW dest \in Users \cup Groups,
             AddCopy(u, c, dest)
      PROVE  IInv'
  BY <1>6, AddCopyKeepsIInv
<1>7. ASSUME NEW u \in Users, NEW S \in SUBSET Copies,
             LendCopies(u, S) \/ ReturnCopies(u, S)
      PROVE  IInv'
  BY <1>7, LendCopiesKeepsIInv, ReturnCopiesKeepsIInv
<1> QED BY <1>1, <1>2, <1>3, <1>4, <1>5, <1>6, <1>7 DEF Collecting, Adding, Lending

LEMMA ListsAndMembersKeepIInv ==
  ASSUME ConstantsAssumption, IInv, Listing \/ Membership
  PROVE  IInv'
<1>1. Collectors \subseteq Users
  BY DEF ConstantsAssumption
<1>2. ASSUME NEW u \in Users,
             \/ \E c \in Copies, g \in Groups : OfferCopy(u, c, g)
             \/ \E c \in Copies : UnlistCopy(u, c)
             \/ \E n \in 0..MaxQuantity : EditWish(u, n)
      PROVE  IInv'
  BY <1>2, ListingKeepsIInv
<1>3. ASSUME NEW u \in Users, NEW g \in Groups, UnshareList(u, g)
      PROVE  IInv'
  BY <1>3, UnshareListKeepsIInv
<1>4. ASSUME NEW g \in Groups, NEW u \in Users, LeaveGroup(g, u) \/ JoinGroup(g, u)
      PROVE  IInv'
  BY <1>4, LeaveGroupKeepsIInv, JoinGroupKeepsIInv
<1>5. ASSUME NEW g \in Groups, DeleteGroup(g)
      PROVE  IInv'
  BY <1>5, DeleteGroupKeepsIInv
<1>6. ASSUME NEW u \in Users, DeleteUser(u)
      PROVE  IInv'
  BY <1>6, DeleteUserKeepsIInv
<1> QED BY <1>1, <1>2, <1>3, <1>4, <1>5, <1>6 DEF Listing, Membership

LEMMA StutteringKeepsIInv ==
  ASSUME ConstantsAssumption, IInv, UNCHANGED vars
  PROVE  IInv'
<1>1. TypeOK'
  BY DEF IInv, TypeOK, vars, rows, groupVars, history
<1>2. OnlyReleases
  BY DEF vars, rows, OnlyReleases
<1> QED BY <1>1, <1>2, ReleasingKeepsIInv

(* The strengthened invariant holds of every behaviour of the trades.      *)
THEOREM TradesInvariant == Spec => []IInv
<1> USE ConstantsAssumption
<1>1. Init => IInv
  BY InitIInv
<1>2. IInv /\ [Next]_vars => IInv'
  BY AskingKeepsIInv, AnsweringKeepsIInv, SettlementsKeepIInv, CollectingKeepsIInv,
     ListsAndMembersKeepIInv, StutteringKeepsIInv DEF Next
<1> QED BY <1>1, <1>2, PTL DEF Spec

(* Every operation keeps the rows, the pins and the history well formed.   *)
THEOREM TypeCorrect == Spec => []TypeOK
BY TradesInvariant, PTL DEF IInv

(* No closed trade and no trade whose giver has settled reserves a copy.   *)
THEOREM NoReservationOutlivesItsTrade == Spec => []PinsAreOwed
BY TradesInvariant, PTL DEF IInv

(* No copy is promised to two trades or to a trade and a borrower.         *)
THEOREM NoCopyIsPromisedTwice == Spec => []PromisedOnce
BY TradesInvariant, PTL DEF IInv

(* A promised copy stays in a personal collection of its giver.            *)
THEOREM PromisedCopiesStayHome == Spec => []PromisedCopyAtHome
BY TradesInvariant, PTL DEF IInv

(* Completed means settled by both sides, however the trade was split.     *)
THEOREM CompletionNeedsBothSides == Spec => []CompletedWhenBothSettled
BY TradesInvariant, PTL DEF IInv

-----------------------------------------------------------------------------
(* What the rows say about the agreement behind them.                      *)

HIDE DEF TradeIds, Roles

(* A row that is not reserved yet is nobody's split, and the row a split   *)
(* came from is past its acceptance.                                       *)
RootsAreAgreed ==
  /\ \A t \in TradeIds : status[t] \in {"none", "pending"} => root[t] = t
  /\ \A t \in TradeIds : root[t] # t => status[root[t]] \notin {"none", "pending"}

(* A pending request that has lost none of its copies names all of them.   *)
NamesFit ==
  \A t \in TradeIds : status[t] = "pending" /\ t \notin bereft /\ requested[t] # {} =>
    Cardinality(requested[t]) = quantity[t]

(* What a settlement request did is in the ledger for as long as the party *)
(* that sent it has an account.                                            *)
Filed(t, user, r) ==
  \E f \in ledger : f.trade = t /\ f.user = user /\ f.request = r
RequestsAreFiled ==
  \A r \in Requests : \A i \in 1..Len(effects[r]) :
    /\ status[effects[r][i].trade] # "none"
    /\ Party(effects[r][i].trade, effects[r][i].role) # Gone =>
         Filed(effects[r][i].trade, Party(effects[r][i].trade, effects[r][i].role), r)

DealsHold == /\ RootsAreAgreed
             /\ NamesFit
             /\ RequestsAreFiled
             /\ RetriesSettleOnce
             /\ PinsCoverQuantity
             /\ OneLiveTrade
             /\ LiveTradesAreBetweenMembers

(* What the two action properties say of one step.                         *)
StaysOpen ==
  \A t \in TradeIds :
    status[t] = "reserved" /\ settled[t] # {} /\ status'[t] = "cancelled"
      => terms'[t] # terms[t]
StaysPut ==
  \A t \in TradeIds : \A c \in pins[t] : place'[c] # place[c] =>
    \/ \E s \in TradeIds : root'[s] = root[t] /\ "giver" \in settled'[s] \ settled[s]
    \/ terms[t].giver \notin accounts'

LEMMA InitDeals == ASSUME ConstantsAssumption, Init PROVE DealsHold
<1>1. RootsAreAgreed /\ NamesFit /\ PinsCoverQuantity
  BY DEF Init, RootsAreAgreed, NamesFit, PinsCoverQuantity, OwesCopies
<1>2. RequestsAreFiled /\ RetriesSettleOnce
  <2>1. \A r \in Requests : effects[r] = <<>>
    BY DEF Init
  <2> QED BY <2>1 DEF RequestsAreFiled, RetriesSettleOnce
<1>3. OneLiveTrade /\ LiveTradesAreBetweenMembers
  BY DEF Init, OneLiveTrade, LiveTradesAreBetweenMembers, HoldsLiveSlot
<1> QED BY <1>1, <1>2, <1>3 DEF DealsHold

(* The frame of every operation but creation, acceptance, resizing and     *)
(* settlement: trades end, and one that does not end keeps its terms, its  *)
(* copies and its parties.                                                 *)
StillBound(t) ==
  /\ terms'[t] = terms[t]
  /\ terms[t].group \in Groups =>
       \A u \in {terms[t].giver, terms[t].receiver} :
         u \in members[terms[t].group] => u \in members'[terms[t].group]

TermsFade ==
  /\ \A t \in TradeIds :
       status'[t] \in {"pending", "reserved"} \/ RequireLive(t)' => terms'[t] = terms[t]
  /\ \A s, t \in TradeIds : terms[s] = terms[t] => terms'[s] = terms'[t]

Retreats ==
  /\ UNCHANGED <<settled, quantity, root, effects, agreed, moved>>
  /\ bereft \subseteq bereft' /\ TermsFade
  /\ \A t \in TradeIds :
       /\ \/ status'[t] = status[t]
          \/ /\ status[t] \in {"pending", "reserved"}
             /\ status'[t] \in {"declined", "cancelled", "expired"}
       /\ OwesCopies(t) /\ status'[t] = status[t] => pins'[t] = pins[t]
       /\ status'[t] = "pending" => requested'[t] = requested[t] \/ t \in bereft'
       /\ HoldsLiveSlot(t) /\ status'[t] = status[t] => StillBound(t)
       /\ terms'[t] = terms[t] => status'[t] = status[t] \/ settled[t] = {}
  /\ \A t \in TradeIds, role \in Roles :
       /\ Party(t, role)' \in {Party(t, role), Gone}
       /\ Party(t, role)' # Gone =>
            \A e \in ledger : e.user = Party(t, role) => e \in ledger'
  /\ StaysPut

LEMMA RetreatingKeepsDeals ==
  ASSUME IInv, DealsHold, Retreats
  PROVE  DealsHold' /\ StaysOpen /\ StaysPut
<1>0. \A t \in TradeIds :
        /\ \/ status'[t] = status[t]
           \/ /\ status[t] \in {"pending", "reserved"}
              /\ status'[t] \in {"declined", "cancelled", "expired"}
        /\ OwesCopies(t) /\ status'[t] = status[t] => pins'[t] = pins[t]
        /\ status'[t] = "pending" => requested'[t] = requested[t] \/ t \in bereft'
        /\ HoldsLiveSlot(t) /\ status'[t] = status[t] => StillBound(t)
        /\ terms'[t] = terms[t] => status'[t] = status[t] \/ settled[t] = {}
  BY DEF Retreats
<1>u. /\ settled' = settled /\ quantity' = quantity /\ root' = root
      /\ effects' = effects /\ bereft \subseteq bereft'
  BY DEF Retreats
<1>1. RootsAreAgreed'
  <2>1. \A t \in TradeIds : root[t] \in TradeIds
    BY DEF IInv, TypeOK
  <2> QED BY <1>0, <1>u, <2>1 DEF DealsHold, RootsAreAgreed
<1>2. NamesFit'
  BY <1>0, <1>u DEF DealsHold, NamesFit
<1>3. RequestsAreFiled'
  <2>1. ASSUME NEW r \in Requests, NEW i \in 1..Len(effects[r])
        PROVE  effects[r][i].trade \in TradeIds /\ effects[r][i].role \in Roles
    <3>1. effects[r] \in Seq(Settlements)
      BY DEF IInv, TypeOK
    <3>2. effects[r][i] \in Settlements
      BY <3>1
    <3> QED BY <3>2 DEF Settlements
  <2>2. ASSUME NEW t \in TradeIds, NEW role \in Roles, NEW r \in Requests,
               status[t] # "none", Party(t, role) # Gone => Filed(t, Party(t, role), r)
        PROVE  /\ status'[t] # "none"
               /\ Party(t, role)' # Gone => Filed(t, Party(t, role), r)'
    <3>1. /\ Party(t, role)' \in {Party(t, role), Gone}
          /\ Party(t, role)' # Gone =>
               \A e \in ledger : e.user = Party(t, role) => e \in ledger'
      BY DEF Retreats
    <3> QED BY <1>0, <2>2, <3>1 DEF Filed
  <2>3. ASSUME NEW r \in Requests, NEW i \in 1..Len(effects[r])
        PROVE  /\ status'[effects[r][i].trade] # "none"
               /\ Party(effects[r][i].trade, effects[r][i].role)' # Gone =>
                    Filed(effects[r][i].trade,
                          Party(effects[r][i].trade, effects[r][i].role), r)'
    <3>1. PICK t, role : t = effects[r][i].trade /\ role = effects[r][i].role
      OBVIOUS
    <3>2. /\ t = effects[r][i].trade /\ role = effects[r][i].role
          /\ t = effects'[r][i].trade /\ role = effects'[r][i].role
      BY <1>u, <3>1
    <3>3. /\ t \in TradeIds /\ role \in Roles /\ status[t] # "none"
          /\ Party(t, role) # Gone => Filed(t, Party(t, role), r)
      BY <2>1, <3>1 DEF DealsHold, RequestsAreFiled
    <3>4. /\ status'[t] # "none"
          /\ Party(t, role)' # Gone => Filed(t, Party(t, role), r)'
      BY <2>2, <3>3
    <3> QED BY <3>2, <3>4 DEF Party, Filed
  <2> QED BY <1>u, <2>3 DEF RequestsAreFiled
<1>4. RetriesSettleOnce'
  BY <1>u DEF DealsHold, RetriesSettleOnce
<1>5. PinsCoverQuantity'
  BY <1>0, <1>u DEF DealsHold, PinsCoverQuantity, OwesCopies
<1>6. \A t \in TradeIds : HoldsLiveSlot(t)' => HoldsLiveSlot(t) /\ StillBound(t)
  BY <1>0, <1>u DEF HoldsLiveSlot
<1>7. OneLiveTrade'
  BY <1>6 DEF DealsHold, OneLiveTrade, StillBound
<1>8. LiveTradesAreBetweenMembers'
  BY <1>6 DEF DealsHold, LiveTradesAreBetweenMembers, StillBound
<1>9. StaysOpen
  BY <1>0 DEF StaysOpen
<1> QED
  BY <1>1, <1>2, <1>3, <1>4, <1>5, <1>7, <1>8, <1>9 DEF DealsHold, Retreats

(* Of those operations, the ones that leave the terms, the members and the *)
(* ledger alone and end no trade that has been accepted.                   *)
Quiet ==
  /\ UNCHANGED <<terms, settled, quantity, root, effects, ledger, members, agreed, moved>>
  /\ bereft \subseteq bereft'
  /\ \A t \in TradeIds :
       /\ \/ status'[t] = status[t]
          \/ status[t] = "pending" /\ status'[t] \in {"declined", "cancelled", "expired"}
       /\ OwesCopies(t) => pins'[t] = pins[t]
       /\ status'[t] = "pending" => requested'[t] = requested[t] \/ t \in bereft'
  /\ \A t \in TradeIds : \A c \in pins[t] : place'[c] = place[c]

LEMMA QuietRetreats == ASSUME IInv, Quiet PROVE Retreats
<1>1. \A t \in TradeIds : status[t] = "pending" => settled[t] = {}
  BY DEF IInv, CompletedWhenBothSettled
<1>2. \A t \in TradeIds, role \in Roles : Party(t, role)' = Party(t, role)
  BY DEF Quiet, Party
<1>3. \A t \in TradeIds : StillBound(t)
  BY DEF Quiet, StillBound
<1>4. StaysPut /\ TermsFade
  BY DEF Quiet, StaysPut, TermsFade
<1> QED BY <1>1, <1>2, <1>3, <1>4 DEF Quiet, Retreats

(* Copies that no trade holds can be deleted without a trade's notice.     *)
LEMMA DeletingFreeCopies ==
  ASSUME IInv, NEW S, S \cap Pinned = {}, DeleteCopies(S, pins)
  PROVE  /\ \A t \in TradeIds : /\ pins'[t] = pins[t]
                                /\ \A c \in pins[t] : place'[c] = place[c]
                                /\ status[t] = "pending" =>
                                     requested'[t] = requested[t] \/ t \in bereft'
         /\ bereft \subseteq bereft'
<1>1. /\ place' = [c \in Copies |-> IF c \in S THEN Nowhere ELSE place[c]]
      /\ pins' = [t \in TradeIds |-> pins[t] \ S]
      /\ requested' = [t \in TradeIds |-> requested[t] \ S]
      /\ bereft' = bereft \cup {t \in TradeIds :
                      status[t] = "pending" /\ requested[t] \cap S # {}}
  BY DEF DeleteCopies, CascadeCopies
<1>2. \A t \in TradeIds : pins[t] \cap S = {} /\ pins[t] \subseteq Copies
  BY DEF IInv, TypeOK, Pinned
<1>3. ASSUME NEW t \in TradeIds
      PROVE  pins'[t] = pins[t] /\ \A c \in pins[t] : place'[c] = place[c]
  BY <1>1, <1>2
<1>4. ASSUME NEW t \in TradeIds, status[t] = "pending"
      PROVE  requested'[t] = requested[t] \/ t \in bereft'
  <2>1. CASE requested[t] \cap S = {}
    <3>1. requested'[t] = requested[t] \ S
      BY <1>1
    <3> QED BY <2>1, <3>1
  <2>2. CASE requested[t] \cap S # {}
    BY <1>1, <1>4, <2>2
  <2> QED BY <2>1, <2>2
<1> QED BY <1>1, <1>3, <1>4

LEMMA AnswersAreQuiet ==
  ASSUME IInv, NEW t \in TradeIds,
         AcceptVanished(t) \/ AcceptNamedGone(t) \/ DeclineTrade(t)
  PROVE  Quiet
<1>1. PICK st \in {"cancelled", "declined"} :
        \/ status' = [status EXCEPT ![t] = st]
        \/ status' = SweptStatus(terms[t].giver, [status EXCEPT ![t] = st])
  BY DEF AcceptVanished, AcceptNamedGone, DeclineTrade
<1>2. /\ status[t] = "pending" /\ (pins' = pins \/ pins' = [pins EXCEPT ![t] = {}])
      /\ UNCHANGED <<terms, settled, quantity, requested, ledger, place, groupVars, history>>
  BY DEF AcceptVanished, AcceptNamedGone, DeclineTrade
<1>3. /\ [status EXCEPT ![t] = st] \in [TradeIds -> Statuses]
      /\ \A s \in TradeIds :
           [status EXCEPT ![t] = st][s] = IF s = t THEN st ELSE status[s]
  BY DEF IInv, TypeOK, Statuses, Closed
<1>4. \A s \in TradeIds :
        \/ status'[s] = IF s = t THEN st ELSE status[s]
        \/ s # t /\ status[s] = "pending" /\ status'[s] = "cancelled"
  <2> DEFINE after == [status EXCEPT ![t] = st]
  <2> HIDE DEF after
  <2>1. /\ after \in [TradeIds -> Statuses]
        /\ \A s \in TradeIds : after[s] = IF s = t THEN st ELSE status[s]
        /\ status' = after \/ status' = SweptStatus(terms[t].giver, after)
    BY <1>1, <1>3 DEF after
  <2> QED BY <2>1, SweptStatusClosesPending
<1>5. \A s \in TradeIds : OwesCopies(s) => pins'[s] = pins[s]
  BY <1>2 DEF IInv, TypeOK, OwesCopies
<1> QED BY <1>2, <1>4, <1>5 DEF Quiet, groupVars, history

LEMMA ExpiryIsQuiet ==
  ASSUME IInv, NEW S \in SUBSET TradeIds, ExpirePending(S)
  PROVE  Quiet
BY DEF ExpirePending, Quiet, groupVars, history

LEMMA CopyStepsAreQuiet ==
  ASSUME ConstantsAssumption, IInv, NEW u \in Users, NEW c \in Copies,
         \/ \E dest \in Users \cup Groups : AddCopy(u, c, dest)
         \/ \E g \in Groups : MoveToGroup(u, c, g)
         \/ MoveToPersonal(u, c)
  PROVE  Quiet
<1>1. PICK x \in Users \cup Groups : place' = [place EXCEPT ![c] = x] /\
        (place[c] = Nowhere \/ c \notin Pinned \/ (x = u /\ place[c] \in Writable(u)))
  BY DEF AddCopy, MoveToGroup, MayMoveToGroup, MoveToPersonal
<1>2. /\ status' = status \/ status' = SweptStatus(u, status)
      /\ UNCHANGED <<terms, settled, quantity, requested, ledger, pins, groupVars, history>>
  BY DEF AddCopy, MoveToGroup, MoveToPersonal, rows
<1>3. \A t \in TradeIds : \/ status'[t] = status[t]
                          \/ status[t] = "pending" /\ status'[t] = "cancelled"
  BY <1>2, SweepingReleases
<1>4. ASSUME NEW t \in TradeIds, NEW d \in pins[t]
      PROVE  place'[d] = place[d]
  <2>1. d \in Copies /\ place[d] \in Users /\ d \in Pinned
    BY <1>4, PinnedAtHome DEF Pinned
  <2>2. d = c => x = place[c]
    BY <1>1, <2>1 DEF ConstantsAssumption, Writable
  <2> QED BY <1>1, <2>1, <2>2 DEF IInv, TypeOK
<1> QED BY <1>2, <1>3, <1>4 DEF Quiet, groupVars, history

LEMMA DeletionsAreQuiet ==
  ASSUME IInv, NEW u \in Users, NEW S \in SUBSET Copies,
         DisposeCopies(u, S) \/ WriteOffLoan(u, S) \/ (ResetCollections(u) /\
           S = {c \in Copies : place[c] = u})
  PROVE  Quiet
<1>1. /\ DeleteCopies(S, pins) /\ OnlyCopiesDeleted
      /\ status' = status \/ status' = SweptStatus(u, status)
      /\ S \cap (Pinned \cup Lent) = {} \/ S \subseteq lent[u]
  BY DEF DisposeCopies, WriteOffLoan, ResetCollections, Disposable
<1>2. S \cap Pinned = {}
  BY <1>1 DEF IInv, PromisedOnce, Lent
<1>3. \A t \in TradeIds : \/ status'[t] = status[t]
                          \/ status[t] = "pending" /\ status'[t] = "cancelled"
  BY <1>1, SweepingReleases
<1>4. /\ \A t \in TradeIds : /\ pins'[t] = pins[t]
                             /\ \A c \in pins[t] : place'[c] = place[c]
                             /\ status[t] = "pending" =>
                                  requested'[t] = requested[t] \/ t \in bereft'
      /\ bereft \subseteq bereft'
  BY <1>1, <1>2, DeletingFreeCopies
<1> QED BY <1>1, <1>3, <1>4 DEF Quiet, OnlyCopiesDeleted, groupVars

LEMMA LendingAndListingAreQuiet ==
  ASSUME IInv, NEW u \in Users,
         \/ \E S \in SUBSET Copies : LendCopies(u, S) \/ ReturnCopies(u, S)
         \/ \E c \in Copies, g \in Groups : OfferCopy(u, c, g)
         \/ \E c \in Copies : UnlistCopy(u, c)
         \/ \E g \in Groups : UnshareList(u, g)
         \/ \E n \in 0..MaxQuantity : EditWish(u, n)
  PROVE  Quiet
<1>1. /\ status' = status \/ status' = SweptStatus(u, status)
      /\ UNCHANGED <<terms, settled, quantity, requested, ledger, pins, place,
                     groupVars, history>>
  BY DEF LendCopies, ReturnCopies, OfferCopy, UnlistCopy, UnshareList, EditWish, rows
<1>2. \A t \in TradeIds : \/ status'[t] = status[t]
                          \/ status[t] = "pending" /\ status'[t] = "cancelled"
  BY <1>1, SweepingReleases
<1> QED BY <1>1, <1>2 DEF Quiet, groupVars, history

LEMMA StutteringIsQuiet == ASSUME UNCHANGED vars PROVE Quiet
BY DEF vars, rows, groupVars, history, Quiet

LEMMA CancelRetreats ==
  ASSUME IInv, NEW t \in TradeIds, CancelTrade(t)
  PROVE  Retreats
<1>1. /\ HoldsLiveSlot(t)
      /\ status' = [status EXCEPT ![t] = "cancelled"] /\ pins' = [pins EXCEPT ![t] = {}]
      /\ UNCHANGED <<terms, settled, quantity, requested, ledger, place, groupVars, history>>
  BY DEF CancelTrade
<1>2. status[t] \in {"pending", "reserved"} /\ settled[t] = {}
  BY <1>1 DEF HoldsLiveSlot, IInv, CompletedWhenBothSettled
<1>3. \A s \in TradeIds : /\ status'[s] = IF s = t THEN "cancelled" ELSE status[s]
                          /\ s # t => pins'[s] = pins[s]
  BY <1>1 DEF IInv, TypeOK
<1>4. \A s \in TradeIds : StillBound(s)
  BY <1>1 DEF StillBound, groupVars
<1>5. \A s \in TradeIds, role \in Roles : Party(s, role)' = Party(s, role)
  BY <1>1 DEF Party
<1>6. StaysPut /\ TermsFade
  BY <1>1 DEF StaysPut, TermsFade
<1> QED BY <1>1, <1>2, <1>3, <1>4, <1>5, <1>6 DEF Retreats, groupVars, history

LEMMA LeavingRetreats ==
  ASSUME IInv, NEW g \in Groups, NEW u \in Users, LeaveGroup(g, u) \/ JoinGroup(g, u)
  PROVE  Retreats
<1> DEFINE S == IF LeaveGroup(g, u) THEN Departing(g, u) ELSE {}
<1>1. /\ UNCHANGED <<terms, settled, quantity, requested, ledger, place, history>>
      /\ \A t \in TradeIds :
           /\ status'[t] = IF t \in S THEN "cancelled" ELSE status[t]
           /\ t \notin S => pins'[t] = pins[t]
  BY DEF LeaveGroup, JoinGroup, Cancelled, Released, rows
<1>2. \A t \in S : status[t] \in {"pending", "reserved"} /\ settled[t] = {}
  BY DEF Departing, HoldsLiveSlot, IInv, CompletedWhenBothSettled
<1>3. ASSUME NEW t \in TradeIds, HoldsLiveSlot(t), t \notin S
      PROVE  StillBound(t)
  <2>1. CASE LeaveGroup(g, u)
    <3>1. /\ members' = [members EXCEPT ![g] = @ \ {u}]
          /\ terms[t].group # g \/ u \notin {terms[t].giver, terms[t].receiver}
      BY <1>3, <2>1 DEF LeaveGroup, Departing
    <3> QED BY <1>1, <3>1 DEF IInv, TypeOK, StillBound
  <2>2. CASE JoinGroup(g, u)
    <3>1. members' = [members EXCEPT ![g] = @ \cup {u}]
      BY <2>2 DEF JoinGroup
    <3> QED BY <1>1, <3>1 DEF IInv, TypeOK, StillBound
  <2> QED BY <2>1, <2>2
<1> HIDE DEF S
<1>4. \A t \in TradeIds, role \in Roles : Party(t, role)' = Party(t, role)
  BY <1>1 DEF Party
<1>5. StaysPut /\ TermsFade
  BY <1>1 DEF StaysPut, TermsFade
<1> QED BY <1>1, <1>2, <1>3, <1>4, <1>5 DEF Retreats, history

LEMMA DeletingGroupRetreats ==
  ASSUME ConstantsAssumption, IInv, NEW g \in Groups, DeleteGroup(g)
  PROVE  Retreats
<1> DEFINE S == LiveIn({t \in TradeIds : terms[t].group = g})
           D == {c \in Copies : place[c] = g}
           shared == [offered EXCEPT ![g] = {}]
<1>1. /\ status' = Cancelled(S) /\ CascadeCopies(D, Released(S), shared, lent)
      /\ UNCHANGED <<settled, quantity, ledger, root, effects, agreed, moved>>
      /\ members' = [members EXCEPT ![g] = {}]
  BY DEF DeleteGroup
<1>2. \A t \in S : status[t] \in {"pending", "reserved"} /\ terms[t].group = g
  BY DEF LiveIn
<1>3. \A t \in TradeIds : t \notin S /\ status[t] \in {"pending", "reserved"}
                            => terms[t].group # g
  BY DEF LiveIn
<1>4. ASSUME NEW t \in TradeIds
      PROVE  /\ terms'[t].giver = terms[t].giver /\ terms'[t].receiver = terms[t].receiver
             /\ IF terms[t].group = g THEN terms'[t] # terms[t] /\ ~RequireLive(t)'
                                      ELSE terms'[t] = terms[t]
  <2>1. terms' = [s \in TradeIds |->
           IF terms[s].group = g THEN [terms[s] EXCEPT !.group = Gone] ELSE terms[s]]
    BY DEF DeleteGroup
  <2>2. terms[t] \in Terms /\ Gone # g
    BY DEF ConstantsAssumption, IInv, TypeOK
  <2> QED BY <2>1, <2>2 DEF Terms, RequireLive
<1>f. \A s, t \in TradeIds : terms[s] = terms[t] => terms'[s] = terms'[t]
  BY DEF DeleteGroup
<1> HIDE DEF S, shared
<1>5. /\ \A t \in TradeIds : status'[t] = IF t \in S THEN "cancelled" ELSE status[t]
      /\ bereft \subseteq bereft'
  BY <1>1 DEF Cancelled, CascadeCopies
<1>6. ASSUME NEW t \in TradeIds, NEW c \in pins[t]
      PROVE  c \notin D /\ place'[c] = place[c]
  <2>1. c \in Copies /\ place[c] \in Users /\ g \notin Users
    BY <1>6, PinnedAtHome DEF ConstantsAssumption
  <2> QED BY <1>1, <2>1 DEF CascadeCopies
<1>7. \A t \in TradeIds : t \notin S => pins'[t] = pins[t]
  <2>1. \A t \in TradeIds : pins[t] \ D = pins[t]
    BY <1>6
  <2> QED BY <1>1, <2>1 DEF CascadeCopies, Released
<1>8. \A t \in TradeIds : status[t] = "pending" =>
                             requested'[t] = requested[t] \/ t \in bereft'
  <2>1. \A t \in TradeIds : /\ requested'[t] = requested[t] \ D
                            /\ status[t] = "pending" /\ requested[t] \cap D # {} =>
                                 t \in bereft'
    BY <1>1 DEF CascadeCopies
  <2>2. \A t \in TradeIds : requested[t] \cap D = {} => requested[t] \ D = requested[t]
    OBVIOUS
  <2> HIDE DEF D
  <2> QED BY <2>1, <2>2
<1>9. ASSUME NEW t \in TradeIds, HoldsLiveSlot(t), t \notin S
      PROVE  StillBound(t)
  <2>1. terms[t].group # g
    BY <1>3, <1>9 DEF HoldsLiveSlot
  <2> QED BY <1>1, <1>4, <2>1 DEF IInv, TypeOK, StillBound
<1>10. \A t \in TradeIds, role \in Roles : Party(t, role)' = Party(t, role)
  BY <1>4 DEF Party
<1>11. StaysPut
  BY <1>6 DEF StaysPut
<1> HIDE DEF D
<1>12. ASSUME NEW t \in TradeIds
       PROVE  /\ \/ status'[t] = status[t]
                 \/ /\ status[t] \in {"pending", "reserved"}
                    /\ status'[t] \in {"declined", "cancelled", "expired"}
              /\ OwesCopies(t) /\ status'[t] = status[t] => pins'[t] = pins[t]
              /\ status'[t] = "pending" => requested'[t] = requested[t] \/ t \in bereft'
              /\ HoldsLiveSlot(t) /\ status'[t] = status[t] => StillBound(t)
              /\ terms'[t] = terms[t] => status'[t] = status[t] \/ settled[t] = {}
  <2>1. t \in S => terms'[t] # terms[t] /\ status[t] \in {"pending", "reserved"}
    BY <1>2, <1>4
  <2>2. /\ status'[t] = IF t \in S THEN "cancelled" ELSE status[t]
        /\ t \notin S => pins'[t] = pins[t]
        /\ status[t] = "pending" => requested'[t] = requested[t] \/ t \in bereft'
        /\ HoldsLiveSlot(t) /\ t \notin S => StillBound(t)
    BY <1>5, <1>7, <1>8, <1>9
  <2> QED BY <2>1, <2>2 DEF OwesCopies
<1>13. TermsFade
  <2>1. \A t \in TradeIds : status'[t] \in {"pending", "reserved"} => terms[t].group # g
    BY <1>3, <1>5
  <2> QED BY <1>4, <1>f, <2>1 DEF TermsFade
<1> QED BY <1>1, <1>5, <1>10, <1>11, <1>12, <1>13 DEF Retreats

LEMMA DeletingUserRetreats ==
  ASSUME ConstantsAssumption, IInv, NEW u \in Users, DeleteUser(u)
  PROVE  Retreats
<1> DEFINE orphaned  == {g \in Groups : members[g] = {u}}
           partyTo   == {t \in TradeIds : u \in {terms[t].giver, terms[t].receiver}}
           S         == LiveIn(partyTo \cup {t \in TradeIds : terms[t].group \in orphaned})
           nulled(x) == IF x = u \/ x \in orphaned THEN Gone ELSE x
           D         == {c \in Copies : place[c] \in {u} \cup orphaned}
           loans     == [lent EXCEPT ![u] = {}]
           touched(t) == u \in {terms[t].giver, terms[t].receiver}
                           \/ terms[t].group \in orphaned
<1>1. /\ status' = Cancelled(S) /\ CascadeCopies(D, Released(S), offered, loans)
      /\ UNCHANGED <<settled, quantity, root, effects, agreed, moved>>
      /\ members' = [h \in Groups |-> members[h] \ {u}]
      /\ accounts' = accounts \ {u} /\ ledger' = {e \in ledger : e.user # u}
  BY DEF DeleteUser
<1>2. \A t \in S : status[t] \in {"pending", "reserved"} /\ touched(t)
  BY DEF LiveIn
<1>3. \A t \in TradeIds : t \notin S /\ status[t] \in {"pending", "reserved"}
                            => ~touched(t)
  BY DEF LiveIn
<1>4. ASSUME NEW t \in TradeIds
      PROVE  /\ terms'[t].giver = IF terms[t].giver = u THEN Gone ELSE terms[t].giver
             /\ terms'[t].receiver = IF terms[t].receiver = u THEN Gone
                                                              ELSE terms[t].receiver
             /\ IF touched(t) THEN terms'[t] # terms[t] /\ ~RequireLive(t)'
                              ELSE terms'[t] = terms[t]
  <2>1. terms' = [s \in TradeIds |-> [terms[s] EXCEPT !.group = nulled(@),
                                        !.giver = nulled(@), !.receiver = nulled(@)]]
    BY DEF DeleteUser
  <2>2. terms[t] \in Terms /\ Gone # u /\ Gone \notin orphaned
        /\ Users \cap Groups = {} /\ Gone \notin Users \cup Groups
    BY DEF ConstantsAssumption, IInv, TypeOK
  <2>3. /\ terms[t].giver \in Users \cup {Gone} /\ terms[t].receiver \in Users \cup {Gone}
        /\ terms[t].group \in Groups \cup {Gone}
    BY <2>2 DEF Terms
  <2>4. /\ nulled(terms[t].giver) = IF terms[t].giver = u THEN Gone ELSE terms[t].giver
        /\ nulled(terms[t].receiver) = IF terms[t].receiver = u THEN Gone
                                                               ELSE terms[t].receiver
        /\ nulled(terms[t].group) = IF terms[t].group \in orphaned THEN Gone
                                                                  ELSE terms[t].group
    BY <2>2, <2>3
  <2>5. /\ terms'[t].giver = nulled(terms[t].giver)
        /\ terms'[t].receiver = nulled(terms[t].receiver)
        /\ terms'[t].group = nulled(terms[t].group)
        /\ terms'[t].initiator = terms[t].initiator
        /\ terms'[t] = [group |-> nulled(terms[t].group), giver |-> nulled(terms[t].giver),
             receiver |-> nulled(terms[t].receiver), initiator |-> terms[t].initiator]
    <3> HIDE DEF nulled
    <3> QED BY <2>1, <2>2 DEF Terms
  <2>6. terms[t] = [group |-> terms[t].group, giver |-> terms[t].giver,
                    receiver |-> terms[t].receiver, initiator |-> terms[t].initiator]
    BY <2>2 DEF Terms
  <2> HIDE DEF nulled, orphaned
  <2>7. touched(t) => terms'[t] # terms[t] /\ ~RequireLive(t)'
    BY <2>2, <2>4, <2>5 DEF RequireLive
  <2>8. ~touched(t) => terms'[t] = terms[t]
    BY <2>4, <2>5, <2>6
  <2> QED BY <2>4, <2>5, <2>7, <2>8
<1>f. \A s, t \in TradeIds : terms[s] = terms[t] => terms'[s] = terms'[t]
  <2>1. terms' = [t \in TradeIds |-> [terms[t] EXCEPT !.group = nulled(@),
                                        !.giver = nulled(@), !.receiver = nulled(@)]]
    BY DEF DeleteUser
  <2> HIDE DEF nulled
  <2> QED BY <2>1
<1> HIDE DEF S, loans
<1>5. /\ \A t \in TradeIds : status'[t] = IF t \in S THEN "cancelled" ELSE status[t]
      /\ bereft \subseteq bereft'
  BY <1>1 DEF Cancelled, CascadeCopies
<1>6. ASSUME NEW t \in TradeIds, NEW c \in pins[t], terms[t].giver # u
      PROVE  c \notin D /\ place'[c] = place[c]
  <2>1. c \in Copies /\ place[c] \in Users /\ place[c] # u /\ Users \cap Groups = {}
    BY <1>6, PinnedAtHome DEF ConstantsAssumption
  <2> QED BY <1>1, <2>1 DEF CascadeCopies
<1>7. \A t \in TradeIds : OwesCopies(t) /\ t \notin S => pins'[t] = pins[t]
  <2>1. \A t \in TradeIds : terms[t].giver # u => pins[t] \ D = pins[t]
    BY <1>6
  <2>2. \A t \in TradeIds : OwesCopies(t) /\ t \notin S => terms[t].giver # u
    BY <1>3 DEF OwesCopies
  <2>3. \A t \in TradeIds : t \notin S => pins'[t] = pins[t] \ D
    BY <1>1 DEF CascadeCopies, Released
  <2> HIDE DEF D
  <2> QED BY <2>1, <2>2, <2>3
<1>8. \A t \in TradeIds : status[t] = "pending" =>
                             requested'[t] = requested[t] \/ t \in bereft'
  <2>1. \A t \in TradeIds : /\ requested'[t] = requested[t] \ D
                            /\ status[t] = "pending" /\ requested[t] \cap D # {} =>
                                 t \in bereft'
    BY <1>1 DEF CascadeCopies
  <2>2. \A t \in TradeIds : requested[t] \cap D = {} => requested[t] \ D = requested[t]
    OBVIOUS
  <2> HIDE DEF D
  <2> QED BY <2>1, <2>2
<1>9. ASSUME NEW t \in TradeIds, HoldsLiveSlot(t), t \notin S
      PROVE  StillBound(t)
  <2>1. u \notin {terms[t].giver, terms[t].receiver} /\ terms'[t] = terms[t]
    BY <1>3, <1>4, <1>9 DEF HoldsLiveSlot
  <2>2. \A h \in Groups : members'[h] = members[h] \ {u}
    BY <1>1
  <2> QED BY <2>1, <2>2 DEF StillBound
<1>10. ASSUME NEW t \in TradeIds, NEW role \in Roles
       PROVE  /\ Party(t, role)' \in {Party(t, role), Gone}
              /\ Party(t, role)' # Gone =>
                   \A e \in ledger : e.user = Party(t, role) => e \in ledger'
  <2>1. Party(t, role)' = IF Party(t, role) = u THEN Gone ELSE Party(t, role)
    BY <1>4 DEF Party
  <2> QED BY <1>1, <2>1
<1>11. StaysPut
  BY <1>1, <1>6 DEF StaysPut
<1>12. ASSUME NEW t \in TradeIds
       PROVE  /\ \/ status'[t] = status[t]
                 \/ /\ status[t] \in {"pending", "reserved"}
                    /\ status'[t] \in {"declined", "cancelled", "expired"}
              /\ OwesCopies(t) /\ status'[t] = status[t] => pins'[t] = pins[t]
              /\ status'[t] = "pending" => requested'[t] = requested[t] \/ t \in bereft'
              /\ HoldsLiveSlot(t) /\ status'[t] = status[t] => StillBound(t)
              /\ terms'[t] = terms[t] => status'[t] = status[t] \/ settled[t] = {}
  <2>1. t \in S => terms'[t] # terms[t] /\ status[t] \in {"pending", "reserved"}
    BY <1>2, <1>4
  <2>2. /\ status'[t] = IF t \in S THEN "cancelled" ELSE status[t]
        /\ OwesCopies(t) /\ t \notin S => pins'[t] = pins[t]
        /\ status[t] = "pending" => requested'[t] = requested[t] \/ t \in bereft'
        /\ HoldsLiveSlot(t) /\ t \notin S => StillBound(t)
    BY <1>5, <1>7, <1>8, <1>9
  <2> QED BY <2>1, <2>2 DEF OwesCopies
<1>13. TermsFade
  <2>1. \A t \in TradeIds : status'[t] \in {"pending", "reserved"} => ~touched(t)
    BY <1>3, <1>5
  <2> HIDE DEF touched
  <2> QED BY <1>4, <1>f, <2>1 DEF TermsFade
<1> QED BY <1>1, <1>5, <1>10, <1>11, <1>12, <1>13 DEF Retreats

-----------------------------------------------------------------------------
(* The operations that open, accept, resize or settle a trade.             *)

(* Nothing is filed under a row that does not exist, so a new row, like    *)
(* any step that keeps the ledger and the parties, leaves the files alone. *)
LEMMA FilesStay ==
  ASSUME IInv, RequestsAreFiled, NEW r \in Requests, NEW i \in 1..Len(effects[r]),
         ledger \subseteq ledger',
         \A t \in TradeIds : status[t] # "none" =>
           status'[t] # "none" /\ terms'[t] = terms[t]
  PROVE  LET e == effects[r][i]
         IN  /\ e.trade \in TradeIds /\ status'[e.trade] # "none"
             /\ terms'[e.trade] = terms[e.trade]
             /\ Party(e.trade, e.role) # Gone =>
                  \E f \in ledger' : /\ f.trade = e.trade /\ f.request = r
                                     /\ f.user = Party(e.trade, e.role)
<1>1. effects[r][i].trade \in TradeIds
  <2>1. effects[r] \in Seq(Settlements)
    BY DEF IInv, TypeOK
  <2>2. effects[r][i] \in Settlements
    BY <2>1
  <2> QED BY <2>2 DEF Settlements
<1> QED BY <1>1 DEF RequestsAreFiled, Filed

LEMMA FilesStayTrue ==
  ASSUME IInv, RequestsAreFiled, effects' = effects, ledger \subseteq ledger',
         \A t \in TradeIds : status[t] # "none" =>
           status'[t] # "none" /\ terms'[t] = terms[t]
  PROVE  RequestsAreFiled'
<1>1. ASSUME NEW r \in Requests, NEW i \in 1..Len(effects[r])
      PROVE  /\ status'[effects[r][i].trade] # "none"
             /\ Party(effects[r][i].trade, effects[r][i].role)' # Gone =>
                  Filed(effects[r][i].trade,
                        Party(effects[r][i].trade, effects[r][i].role), r)'
  BY <1>1, FilesStay DEF Party, Filed
<1> QED BY <1>1 DEF RequestsAreFiled

LEMMA CreateTradeKeepsDeals ==
  ASSUME ConstantsAssumption, IInv, DealsHold,
         NEW g \in Groups, NEW giver \in Users, NEW receiver \in Users,
         NEW initiator \in Roles, NEW n \in Quantities, NEW names \in SUBSET Copies,
         CreateTrade(g, giver, receiver, initiator, n, names)
  PROVE  DealsHold' /\ StaysOpen /\ StaysPut
<1> DEFINE t == NextId
<1>1. t \in TradeIds /\ status[t] = "none"
  BY NextRowIsFree DEF CreateTrade
<1> DEFINE deal == [group |-> g, giver |-> giver, receiver |-> receiver,
                    initiator |-> initiator]
<1>2. /\ status' = [status EXCEPT ![t] = "pending"] /\ terms' = [terms EXCEPT ![t] = deal]
      /\ quantity' = [quantity EXCEPT ![t] = n]
      /\ requested' = [requested EXCEPT ![t] = names]
      /\ UNCHANGED <<settled, pins, ledger, place, members, root, bereft, effects>>
      /\ names # {} => Cardinality(names) = n
      /\ {giver, receiver} \subseteq members[g]
      /\ \A s \in TradeIds : HoldsLiveSlot(s) =>
           <<g, giver, receiver>> # <<terms[s].group, terms[s].giver, terms[s].receiver>>
  BY DEF CreateTrade, groupVars
<1> HIDE DEF t
<1>3. /\ status'[t] = "pending" /\ terms'[t] = deal /\ quantity'[t] = n
      /\ requested'[t] = names
      /\ \A s \in TradeIds : s # t => /\ status'[s] = status[s] /\ terms'[s] = terms[s]
                                      /\ quantity'[s] = quantity[s]
                                      /\ requested'[s] = requested[s]
  BY <1>1, <1>2 DEF IInv, TypeOK
<1>4. RootsAreAgreed'
  <2>1. \A s \in TradeIds : root[s] # s => root[s] # t
    BY <1>1 DEF DealsHold, RootsAreAgreed
  <2>2. \A s \in TradeIds : root[s] \in TradeIds
    BY DEF IInv, TypeOK
  <2> QED BY <1>1, <1>2, <1>3, <2>1, <2>2 DEF DealsHold, RootsAreAgreed
<1>5. NamesFit'
  BY <1>2, <1>3 DEF DealsHold, NamesFit
<1>6. RequestsAreFiled' /\ RetriesSettleOnce'
  <2>1. \A s \in TradeIds : status[s] # "none" =>
          status'[s] # "none" /\ terms'[s] = terms[s]
    BY <1>1, <1>3
  <2> QED BY <1>2, <2>1, FilesStayTrue DEF DealsHold, RetriesSettleOnce
<1>7. PinsCoverQuantity'
  BY <1>2, <1>3 DEF DealsHold, PinsCoverQuantity, OwesCopies
<1>8. \A s \in TradeIds : s # t => (HoldsLiveSlot(s)' <=> HoldsLiveSlot(s))
  BY <1>2, <1>3 DEF HoldsLiveSlot
<1>9. OneLiveTrade'
  <2> DEFINE Of(x) == <<x.group, x.giver, x.receiver>>
  <2>1. \A r, s \in TradeIds : r # s /\ HoldsLiveSlot(r) /\ HoldsLiveSlot(s) =>
          Of(terms[r]) # Of(terms[s])
    BY DEF DealsHold, OneLiveTrade
  <2>2. \A s \in TradeIds : HoldsLiveSlot(s) => Of(deal) # Of(terms[s])
    BY <1>2
  <2> HIDE DEF Of, deal
  <2>3. \A r, s \in TradeIds : r # s /\ HoldsLiveSlot(r)' /\ HoldsLiveSlot(s)' =>
          Of(terms'[r]) # Of(terms'[s])
    <3>1. ASSUME NEW r \in TradeIds, NEW s \in TradeIds, r # s,
                 HoldsLiveSlot(r)', HoldsLiveSlot(s)'
          PROVE  Of(terms'[r]) # Of(terms'[s])
      <4>1. CASE r = t
        BY <1>3, <1>8, <2>2, <3>1, <4>1
      <4>2. CASE s = t
        BY <1>3, <1>8, <2>2, <3>1, <4>2
      <4>3. CASE r # t /\ s # t
        BY <1>3, <1>8, <2>1, <3>1, <4>3
      <4> QED BY <4>1, <4>2, <4>3
    <3> QED BY <3>1
  <2> QED BY <2>3 DEF OneLiveTrade, Of
<1>10. LiveTradesAreBetweenMembers'
  BY <1>2, <1>3, <1>8 DEF DealsHold, LiveTradesAreBetweenMembers
<1>11. StaysOpen /\ StaysPut
  BY <1>2, <1>3 DEF StaysOpen, StaysPut
<1> QED BY <1>4, <1>5, <1>6, <1>7, <1>9, <1>10, <1>11 DEF DealsHold

LEMMA AcceptTradeKeepsDeals ==
  ASSUME ConstantsAssumption, IInv, DealsHold, NEW t \in TradeIds, NEW P \in SUBSET Copies,
         AcceptTrade(t, P)
  PROVE  DealsHold' /\ StaysOpen /\ StaysPut
<1>1. /\ status' = SweptStatus(terms[t].giver, [status EXCEPT ![t] = "reserved"])
      /\ status[t] = "pending" /\ pins' = [pins EXCEPT ![t] = P]
      /\ P = requested[t] \/ requested[t] = {}
      /\ requested[t] = {} => Cardinality(P) = quantity[t]
      /\ UNCHANGED <<terms, settled, quantity, requested, ledger, place, members,
                     root, bereft, effects>>
  BY DEF AcceptTrade, groupVars, history
<1>2. /\ status'[t] = "reserved"
      /\ \A s \in TradeIds : s # t =>
           status'[s] = status[s] \/ (status[s] = "pending" /\ status'[s] = "cancelled")
  <2> DEFINE st == [status EXCEPT ![t] = "reserved"]
  <2>1. st \in [TradeIds -> Statuses]
    BY DEF IInv, TypeOK, Statuses
  <2>2. \A s \in TradeIds : st[s] = IF s = t THEN "reserved" ELSE status[s]
    BY DEF IInv, TypeOK
  <2>3. status' = SweptStatus(terms[t].giver, st)
    BY <1>1
  <2> HIDE DEF st
  <2> QED BY <2>1, <2>2, <2>3, SweptStatusClosesPending
<1>3. RootsAreAgreed'
  <2>1. \A s \in TradeIds : root[s] \in TradeIds
    BY DEF IInv, TypeOK
  <2> QED BY <1>1, <1>2, <2>1 DEF DealsHold, RootsAreAgreed
<1>4. NamesFit'
  BY <1>1, <1>2 DEF DealsHold, NamesFit
<1>5. RequestsAreFiled' /\ RetriesSettleOnce'
  <2>1. \A s \in TradeIds : status[s] # "none" =>
          status'[s] # "none" /\ terms'[s] = terms[s]
    BY <1>1, <1>2
  <2> QED BY <1>1, <2>1, FilesStayTrue DEF DealsHold, RetriesSettleOnce
<1>6. PinsCoverQuantity'
  <2>1. root[t] = t /\ pins'[t] = P /\ \A s \in TradeIds : s # t => pins'[s] = pins[s]
    BY <1>1 DEF IInv, TypeOK, DealsHold, RootsAreAgreed
  <2>2. root[t] \notin bereft => Cardinality(P) = quantity[t]
    BY <1>1, <2>1 DEF DealsHold, NamesFit
  <2> QED BY <1>1, <1>2, <2>1, <2>2 DEF DealsHold, PinsCoverQuantity, OwesCopies
<1>7. \A s \in TradeIds : HoldsLiveSlot(s)' => HoldsLiveSlot(s)
  BY <1>1, <1>2 DEF HoldsLiveSlot
<1>8. OneLiveTrade' /\ LiveTradesAreBetweenMembers'
  BY <1>1, <1>7 DEF DealsHold, OneLiveTrade, LiveTradesAreBetweenMembers
<1>9. StaysOpen /\ StaysPut
  BY <1>1, <1>2 DEF StaysOpen, StaysPut
<1> QED BY <1>3, <1>4, <1>5, <1>6, <1>8, <1>9 DEF DealsHold

LEMMA SetTradeQuantityKeepsDeals ==
  ASSUME IInv, DealsHold, NEW t \in TradeIds, NEW n, SetTradeQuantity(t, n)
  PROVE  DealsHold' /\ StaysOpen /\ StaysPut
<1>1. /\ status[t] = "pending" /\ quantity' = [quantity EXCEPT ![t] = n]
      /\ bereft \subseteq bereft' \cup {t}
      /\ UNCHANGED <<status, terms, settled, pins, ledger, place, members, root, effects>>
  BY DEF SetTradeQuantity, groupVars
<1>2. \/ requested' = requested /\ bereft' = bereft /\ n = quantity[t]
      \/ requested' = [requested EXCEPT ![t] = {}]
  BY DEF SetTradeQuantity
<1>3. /\ quantity'[t] = n
      /\ \A s \in TradeIds : s # t => /\ quantity'[s] = quantity[s]
                                      /\ requested'[s] = requested[s]
      /\ requested'[t] = {} \/ (requested' = requested /\ bereft' = bereft
                                 /\ n = quantity[t])
  BY <1>1, <1>2 DEF IInv, TypeOK
<1>4. RootsAreAgreed'
  BY <1>1 DEF DealsHold, RootsAreAgreed
<1>5. NamesFit'
  BY <1>1, <1>3 DEF DealsHold, NamesFit
<1>6. RequestsAreFiled' /\ RetriesSettleOnce'
  BY <1>1, FilesStayTrue DEF DealsHold, RetriesSettleOnce
<1>7. PinsCoverQuantity'
  <2>1. \A s \in TradeIds : OwesCopies(s) => s # t /\ root[s] # t
    BY <1>1 DEF DealsHold, RootsAreAgreed, OwesCopies
  <2> QED BY <1>1, <1>3, <2>1 DEF DealsHold, PinsCoverQuantity, OwesCopies
<1>8. OneLiveTrade' /\ LiveTradesAreBetweenMembers'
  BY <1>1 DEF DealsHold, OneLiveTrade, LiveTradesAreBetweenMembers, HoldsLiveSlot
<1>9. StaysOpen /\ StaysPut
  BY <1>1 DEF StaysOpen, StaysPut
<1> QED BY <1>4, <1>5, <1>6, <1>7, <1>8, <1>9 DEF DealsHold

(* A trade that holds a pin for every copy it owes is cut into a part that *)
(* has n of them and a part that has the others.                           *)
LEMMA SplitPinsCount ==
  ASSUME ConstantsAssumption, IInv, NEW t \in TradeIds, NEW n \in 1..quantity[t],
         Cardinality(pins[t]) = quantity[t], NEW disposing,
         NEW M \in SplitPins(t, n, disposing)
  PROVE  Cardinality(M) = n /\ Cardinality(pins[t] \ M) = quantity[t] - n
<1>1. IsFiniteSet(pins[t]) /\ M \subseteq pins[t] /\ quantity[t] \in Nat
  <2>1. pins[t] \subseteq Copies
    BY DEF IInv, TypeOK
  <2> QED BY <2>1, FS_Subset DEF ConstantsAssumption, IInv, TypeOK, SplitPins
<1>2. Cardinality(M) = n
  BY <1>1 DEF SplitPins
<1>3. Cardinality(pins[t] \ M) = Cardinality(pins[t]) - Cardinality(pins[t] \cap M)
  BY <1>1, FS_Difference
<1>4. pins[t] \cap M = M
  BY <1>1
<1> QED BY <1>2, <1>3, <1>4

(* The frame of a settlement, as far as the agreement is concerned.        *)
Divides(t, role, s, n) ==
  /\ bereft \subseteq bereft'
  /\ \A u \in TradeIds : u \notin {s, t} /\ OwesCopies(u) => pins'[u] = pins[u]
  /\ OwesCopies(t) /\ root[t] \notin bereft =>
       /\ s # t => Cardinality(pins'[t]) = quantity[t] - n
       /\ role # "giver" => Cardinality(pins'[s]) = n
  /\ \A u \in TradeIds : status[u] = "pending" =>
       requested'[u] = requested[u] \/ u \in bereft'
  /\ status'[s] \in {"reserved", "completed"}
  /\ \A u \in TradeIds : u # s =>
       status'[u] = status[u] \/ (status[u] = "pending" /\ status'[u] = "cancelled")
  /\ \A u \in TradeIds, r \in Roles :
       /\ moved'[u][r] <= moved[u][r] + n
       /\ u # root[t] \/ r # role => moved'[u][r] = moved[u][r]
  /\ StaysPut

LEMMA DividingKeepsDeals ==
  ASSUME ConstantsAssumption, IInv, DealsHold, NEW t \in TradeIds, NEW role \in Roles,
         NEW n \in Quantities, NEW r \in Answers, NEW kind \in {"apply", "skip"},
         ClaimSettleTarget(t, role, n, kind, r), Divides(t, role, SettleTarget(t, n), n)
  PROVE  DealsHold' /\ StaysOpen /\ StaysPut
<1> DEFINE s == SettleTarget(t, n)
<1>1. /\ s \in TradeIds /\ status[t] = "reserved" /\ role \notin settled[t]
      /\ s # t => status[s] = "none"
      /\ n \in Nat /\ terms[t].receiver \in Users /\ terms[t].giver \in Users
  BY ClaimedTarget
<1>2. /\ terms' = [terms EXCEPT ![s] = terms[t]]
      /\ quantity' = [quantity EXCEPT ![t] = @ - n, ![s] = n]
      /\ settled' = [settled EXCEPT ![s] = settled[t] \cup {role}]
      /\ root' = [root EXCEPT ![s] = root[t]] /\ members' = members
      /\ ledger' = IF r \in Requests
                     THEN ledger \cup {LedgerEntry(t, role, n, r)} ELSE ledger
  BY DEF ClaimSettleTarget, QuantityAfter, SidesAfter, groupVars
<1>d. Divides(t, role, s, n)
  OBVIOUS
<1> HIDE DEF s
<1>3. /\ terms'[s] = terms[t] /\ quantity'[s] = n /\ root'[s] = root[t]
      /\ settled'[s] = settled[t] \cup {role}
      /\ s # t => quantity'[t] = quantity[t] - n
      /\ \A u \in TradeIds : u # s => /\ terms'[u] = terms[u] /\ root'[u] = root[u]
                                      /\ settled'[u] = settled[u]
                                      /\ u # t => quantity'[u] = quantity[u]
  <2>1. /\ terms \in [TradeIds -> Terms] /\ quantity \in [TradeIds -> Nat]
        /\ settled \in [TradeIds -> SUBSET Roles] /\ root \in [TradeIds -> TradeIds]
    BY DEF IInv, TypeOK
  <2> QED BY <1>1, <1>2, <2>1
<1>4. /\ status'[s] \in {"reserved", "completed"}
      /\ \A u \in TradeIds : u # s =>
           status'[u] = status[u] \/ (status[u] = "pending" /\ status'[u] = "cancelled")
      /\ bereft \subseteq bereft'
  BY <1>d DEF Divides
<1>5. RootsAreAgreed'
  <2>1. \A u \in TradeIds : status'[u] \in {"none", "pending"} =>
          u # s /\ status[u] = status'[u]
    BY <1>4
  <2>2. \A u \in TradeIds : root[u] \in TradeIds
    BY DEF IInv, TypeOK
  <2>3. /\ \A u \in TradeIds : status[u] \in {"none", "pending"} => root[u] = u
        /\ \A u \in TradeIds : root[u] # u => status[root[u]] \notin {"none", "pending"}
    BY DEF DealsHold, RootsAreAgreed
  <2>4. \A u \in TradeIds : status'[u] \in {"none", "pending"} => root'[u] = u
    BY <1>3, <2>1, <2>3
  <2>5. status[root[t]] \notin {"none", "pending"}
    BY <1>1, <2>3
  <2>6. \A u \in TradeIds : root'[u] # u => status'[root'[u]] \notin {"none", "pending"}
    BY <1>3, <2>1, <2>2, <2>3, <2>5
  <2> QED BY <2>4, <2>6 DEF RootsAreAgreed
<1>6. NamesFit'
  <2>1. \A u \in TradeIds : status'[u] = "pending" => u # s /\ status[u] = "pending"
    BY <1>4
  <2>2. \A u \in TradeIds : status[u] = "pending" =>
          u # t /\ (requested'[u] = requested[u] \/ u \in bereft')
    BY <1>1, <1>d DEF Divides
  <2> QED BY <1>3, <1>4, <2>1, <2>2 DEF DealsHold, NamesFit
<1>7. \A u \in TradeIds : status[u] # "none" =>
        status'[u] # "none" /\ terms'[u] = terms[u]
  BY <1>1, <1>3, <1>4
<1>8. RequestsAreFiled' /\ RetriesSettleOnce'
  <2>1. CASE r \notin Requests
    <3>1. effects' = effects /\ ledger' = ledger
      BY <1>2, <2>1 DEF ClaimSettleTarget
    <3> QED BY <1>7, <3>1, FilesStayTrue DEF DealsHold, RetriesSettleOnce
  <2>2. CASE r \in Requests
    <3> DEFINE e == [trade |-> t, role |-> role, kind |-> kind, n |-> n]
    <3>1. /\ effects' = [effects EXCEPT ![r] = Append(@, e)]
          /\ \A i \in 1..Len(effects[r]) : effects[r][i] = e
          /\ \A f \in ledger : <<f.trade, f.user, f.request>> # <<t, Party(t, role), r>>
      BY <2>2 DEF ClaimSettleTarget, MaySettle
    <3>2. e.trade = t /\ e.role = role
      OBVIOUS
    <3>3. effects \in [Requests -> Seq(Settlements)] /\ e \in Settlements
      BY <1>1 DEF IInv, TypeOK, Settlements
    <3> HIDE DEF e
    <3>4. Party(t, role) # Gone
      BY <1>1 DEF ConstantsAssumption, Party
    <3>5. effects[r] = <<>>
      <4>1. SUFFICES ASSUME effects[r] # <<>> PROVE FALSE
        OBVIOUS
      <4>2. 1 \in 1..Len(effects[r])
        BY <3>3, <4>1
      <4>3. effects[r][1] = e
        BY <3>1, <4>2
      <4>4. Party(effects[r][1].trade, effects[r][1].role) = Party(t, role)
        BY <3>2, <4>3
      <4>5. Filed(effects[r][1].trade, Party(t, role), r)
        BY <2>2, <3>4, <4>2, <4>4 DEF DealsHold, RequestsAreFiled
      <4>6. Filed(t, Party(t, role), r)
        BY <3>2, <4>3, <4>5
      <4> QED BY <3>1, <4>6 DEF Filed
    <3>6. /\ Len(effects'[r]) = 1 /\ effects'[r][1] = e
          /\ \A q \in Requests : q # r => effects'[q] = effects[q]
      <4>1. /\ effects'[r] = Append(effects[r], e) /\ effects[r] \in Seq(Settlements)
            /\ Len(effects[r]) = 0
            /\ \A q \in Requests : q # r => effects'[q] = effects[q]
        BY <2>2, <3>1, <3>3, <3>5
      <4> QED BY <3>3, <4>1
    <3>7. RetriesSettleOnce'
      <4>1. \A q \in Requests : q # r => Len(effects'[q]) <= 1
        BY <3>6 DEF DealsHold, RetriesSettleOnce
      <4>2. ASSUME NEW q \in Requests PROVE Len(effects'[q]) <= 1
        <5>1. CASE q = r
          <6>1. Len(effects'[q]) = 1
            BY <3>6, <5>1
          <6> QED BY <6>1
        <5>2. CASE q # r
          BY <4>1, <5>2
        <5> QED BY <5>1, <5>2
      <4> QED BY <4>2 DEF RetriesSettleOnce
    <3>8. ASSUME NEW q \in Requests, NEW i \in 1..Len(effects'[q])
          PROVE  /\ status'[effects'[q][i].trade] # "none"
                 /\ Party(effects[q][i].trade, effects[q][i].role)' # Gone =>
                      Filed(effects[q][i].trade,
                            Party(effects[q][i].trade, effects[q][i].role), q)'
      <4>1. CASE q # r
        <5>1. effects'[q] = effects[q] /\ i \in 1..Len(effects[q])
          BY <3>6, <3>8, <4>1
        <5>2. ledger \subseteq ledger' /\ RequestsAreFiled
          BY <1>2 DEF DealsHold
        <5>3. /\ effects[q][i].trade \in TradeIds /\ status'[effects[q][i].trade] # "none"
              /\ terms'[effects[q][i].trade] = terms[effects[q][i].trade]
              /\ Party(effects[q][i].trade, effects[q][i].role) # Gone =>
                   \E f \in ledger' : /\ f.trade = effects[q][i].trade /\ f.request = q
                                      /\ f.user = Party(effects[q][i].trade,
                                                        effects[q][i].role)
          BY <1>7, <5>1, <5>2, FilesStay
        <5> QED BY <5>1, <5>3 DEF Party, Filed
      <4>2. CASE q = r
        <5>1. i = 1
          <6>1. Len(effects'[q]) = 1
            BY <3>6, <4>2
          <6>2. i \in 1..1
            BY <3>8, <6>1
          <6> QED BY <6>2
        <5>2. effects'[q][i] = e
          BY <3>6, <4>2, <5>1
        <5>3. /\ LedgerEntry(t, role, n, r) \in ledger'
              /\ LedgerEntry(t, role, n, r).trade = t
              /\ LedgerEntry(t, role, n, r).user = Party(t, role)
              /\ LedgerEntry(t, role, n, r).request = r
          BY <1>2, <2>2 DEF LedgerEntry
        <5>4. status'[t] # "none" /\ terms'[t] = terms[t]
          BY <1>1, <1>7
        <5>5. PICK x : x = effects'[q][i] /\ x.trade = t /\ x.role = role
          BY <3>2, <5>2
        <5>6. Party(t, role)' = Party(t, role)
          BY <5>4 DEF Party
        <5>7. Filed(t, Party(t, role), q)'
          BY <4>2, <5>3, <5>6 DEF Filed
        <5>8. Filed(x.trade, Party(x.trade, x.role), q)'
          BY <5>5, <5>7
        <5>9. /\ effects'[q][i].trade = x.trade /\ effects'[q][i].role = x.role
              /\ status'[x.trade] # "none"
          BY <5>4, <5>5
        <5> QED BY <5>8, <5>9 DEF Party, Filed
      <4> QED BY <4>1, <4>2
    <3>9. RequestsAreFiled'
      BY <3>8 DEF RequestsAreFiled
    <3> QED BY <3>7, <3>9
  <2> QED BY <2>1, <2>2
<1>9. PinsCoverQuantity'
  <2>1. ASSUME NEW u \in TradeIds, OwesCopies(u)', root'[u] \notin bereft'
        PROVE  Cardinality(pins'[u]) = quantity'[u]
    <3>1. CASE u = s
      <4>1. "giver" \notin settled[t] /\ role # "giver"
        BY <1>3, <2>1, <3>1 DEF OwesCopies
      <4>2. OwesCopies(t) /\ root[t] \notin bereft
        BY <1>1, <1>3, <1>4, <2>1, <3>1, <4>1 DEF OwesCopies
      <4> QED BY <1>3, <1>d, <3>1, <4>1, <4>2 DEF Divides
    <3>2. CASE u = t /\ u # s
      <4>1. OwesCopies(t) /\ root[t] \notin bereft
        BY <1>1, <1>3, <1>4, <2>1, <3>2 DEF OwesCopies
      <4> QED BY <1>3, <1>d, <3>2, <4>1 DEF Divides
    <3>3. CASE u \notin {s, t}
      <4>1. OwesCopies(u) /\ root[u] \notin bereft
        BY <1>3, <1>4, <2>1, <3>3 DEF OwesCopies
      <4> QED BY <1>3, <1>d, <3>3, <4>1 DEF Divides, DealsHold, PinsCoverQuantity
    <3> QED BY <3>1, <3>2, <3>3
  <2> QED BY <2>1 DEF PinsCoverQuantity
<1>10. \A u \in TradeIds : HoldsLiveSlot(u)' => HoldsLiveSlot(u) /\ terms'[u] = terms[u]
  BY <1>3, <1>4 DEF HoldsLiveSlot
<1>11. OneLiveTrade' /\ LiveTradesAreBetweenMembers'
  BY <1>2, <1>10 DEF DealsHold, OneLiveTrade, LiveTradesAreBetweenMembers
<1>12. StaysOpen /\ StaysPut
  BY <1>d, <1>4 DEF Divides, StaysOpen
<1> QED BY <1>5, <1>6, <1>8, <1>9, <1>11, <1>12 DEF DealsHold

USE DEF TradeIds, Roles

LEMMA SplitPinsElsewhere ==
  ASSUME IInv, NEW t \in TradeIds, NEW n, NEW M, SettleTarget(t, n) \in TradeIds
  PROVE  \A u \in TradeIds : u \notin {SettleTarget(t, n), t} =>
           /\ PinsAfterSplit(t, n, M)[u] = pins[u]
           /\ GiverPins(t, n, M)[u] = pins[u]
<1> DEFINE s == SettleTarget(t, n)
<1> HIDE DEF s
<1>1. /\ PinsAfterSplit(t, n, M) = [pins EXCEPT ![t] = @ \ M, ![s] = M]
      /\ GiverPins(t, n, M) = [[pins EXCEPT ![t] = @ \ M, ![s] = M] EXCEPT ![s] = {}]
  BY DEF PinsAfterSplit, GiverPins, s
<1>2. DOMAIN pins = TradeIds
  BY DEF IInv, TypeOK
<1> QED BY <1>1, <1>2 DEF s

(* The row a partial settlement splits off is one the trades have.         *)
LEMMA TargetIsRow ==
  ASSUME ConstantsAssumption, IInv, NEW t \in TradeIds, NEW n \in Nat, n \in 1..quantity[t],
         n < quantity[t] => created < MaxTrades
  PROVE  SettleTarget(t, n) \in TradeIds
<1>1. quantity[t] \in Nat /\ created \in 0..MaxTrades /\ MaxTrades \in Nat
  BY DEF ConstantsAssumption, IInv, TypeOK
<1> QED BY <1>1 DEF SettleTarget, NextId, TradeIds

(* A settlement that deletes no copies: a side that skips, and a receiver. *)
LEMMA SplittingDivides ==
  ASSUME ConstantsAssumption, IInv, DealsHold, NEW t \in TradeIds, NEW role \in Roles,
         NEW n \in Quantities, NEW r \in Answers, NEW kind \in {"apply", "skip"},
         ClaimSettleTarget(t, role, n, kind, r), NEW M \in SplitPins(t, n, {}),
         pins' = IF role = "giver" THEN GiverPins(t, n, M) ELSE PinsAfterSplit(t, n, M),
         status' = SettledStatus(t, role, n), UNCHANGED <<requested, bereft>>,
         moved' = Moved(t, role, n) \/ moved' = moved,
         \A u \in TradeIds : \A c \in pins[u] : place'[c] = place[c]
  PROVE  Divides(t, role, SettleTarget(t, n), n)
<1> DEFINE s == SettleTarget(t, n)
<1>1. /\ s \in TradeIds /\ n \in Nat /\ M \in SUBSET pins[t] /\ n \in 1..quantity[t]
  <2>1. n \in 1..quantity[t] /\ (n < quantity[t] => created < MaxTrades)
    BY DEF ClaimSettleTarget, MaySettle
  <2>2. n \in Nat
    BY DEF Quantities
  <2>3. M \in SUBSET pins[t]
    BY DEF SplitPins
  <2>4. s \in TradeIds
    BY <2>1, <2>2, TargetIsRow
  <2> QED BY <2>1, <2>2, <2>3, <2>4
<1>2. /\ status'[s] \in {"reserved", "completed"}
      /\ \A u \in TradeIds : u # s => status'[u] = status[u]
  BY <1>1, SettledStatusOfTarget
<1>3. \A u \in TradeIds : u \notin {s, t} => pins'[u] = pins[u]
  <2>1. \A u \in TradeIds : u \notin {s, t} =>
          PinsAfterSplit(t, n, M)[u] = pins[u] /\ GiverPins(t, n, M)[u] = pins[u]
    BY <1>1, SplitPinsElsewhere
  <2> QED BY <2>1
<1>4. /\ s # t => pins'[t] = pins[t] \ M
      /\ role # "giver" => pins'[s] = M
  BY <1>1, SplitPinsMove
<1>5. OwesCopies(t) /\ root[t] \notin bereft =>
        Cardinality(M) = n /\ Cardinality(pins[t] \ M) = quantity[t] - n
  <2>1. PinsCoverQuantity
    BY DEF DealsHold
  <2>2. OwesCopies(t) /\ root[t] \notin bereft => Cardinality(pins[t]) = quantity[t]
    BY <2>1 DEF PinsCoverQuantity
  <2> QED BY <1>1, <2>2, SplitPinsCount, ZenonT(30)
<1>6. StaysPut
  BY DEF StaysPut
<1>7. \A u \in TradeIds, x \in Roles :
        /\ moved'[u][x] <= moved[u][x] + n
        /\ u # root[t] \/ x # role => moved'[u][x] = moved[u][x]
  <2>1. n \in Nat /\ n <= n
    BY <1>1
  <2>2. CASE moved' = Moved(t, role, n)
    BY <2>1, <2>2, MovedAtMost
  <2>3. CASE moved' = moved
    <3>1. moved \in [TradeIds -> [Roles -> Nat]]
      BY DEF IInv, TypeOK
    <3>2. \A u \in TradeIds, x \in Roles : moved[u][x] \in Nat
      BY <3>1
    <3> QED BY <2>1, <2>3, <3>2
  <2> QED BY <2>2, <2>3
<1> HIDE DEF s
<1> QED BY <1>2, <1>3, <1>4, <1>5, <1>6, <1>7 DEF Divides, s

(* A settlement, whatever it does with the copies.                         *)
Settles(t, role, n) ==
  /\ \E r \in Answers, kind \in {"apply", "skip"} : ClaimSettleTarget(t, role, n, kind, r)
  /\ Divides(t, role, SettleTarget(t, n), n)

LEMMA SkippingSettles ==
  ASSUME ConstantsAssumption, IInv, DealsHold, NEW t \in TradeIds, NEW role \in Roles,
         NEW n \in Quantities, NEW r \in Answers, SkipSync(t, role, n, r)
  PROVE  Settles(t, role, n)
<1>1. /\ ClaimSettleTarget(t, role, n, "skip", r) /\ status' = SettledStatus(t, role, n)
      /\ UNCHANGED <<requested, place, bereft, moved>>
  BY DEF SkipSync
<1>2. PICK M \in SplitPins(t, n, {}) :
        pins' = IF role = "giver" THEN GiverPins(t, n, M) ELSE PinsAfterSplit(t, n, M)
  BY DEF SkipSync
<1>3. \A u \in TradeIds : \A c \in pins[u] : place'[c] = place[c]
  BY <1>1
<1>4. Divides(t, role, SettleTarget(t, n), n)
  BY <1>1, <1>2, <1>3, SplittingDivides
<1> QED BY <1>1, <1>4 DEF Settles

LEMMA ReceivingSettles ==
  ASSUME ConstantsAssumption, IInv, DealsHold, NEW t \in TradeIds, NEW n \in Quantities,
         NEW fresh, NEW dest, NEW r \in Answers, ApplyReceiver(t, n, fresh, dest, r)
  PROVE  Settles(t, "receiver", n)
<1>1. /\ ClaimSettleTarget(t, "receiver", n, "apply", r)
      /\ status' = SettledStatus(t, "receiver", n) /\ UNCHANGED <<requested, bereft>>
      /\ moved' = Moved(t, "receiver", n)
      /\ \A c \in fresh : place[c] = Nowhere
      /\ place' = [c \in Copies |-> IF c \in fresh THEN dest ELSE place[c]]
  BY DEF ApplyReceiver
<1>2. PICK M \in SplitPins(t, n, {}) : pins' = PinsAfterSplit(t, n, M)
  BY DEF ApplyReceiver
<1>3. ASSUME NEW u \in TradeIds, NEW c \in pins[u]
      PROVE  place'[c] = place[c]
  <2>1. c \in Copies /\ place[c] \in Users /\ Nowhere \notin Users
    BY <1>3, PinnedAtHome DEF ConstantsAssumption
  <2> QED BY <1>1, <2>1
<1>4. pins' = IF "receiver" = "giver" THEN GiverPins(t, n, M) ELSE PinsAfterSplit(t, n, M)
  BY <1>2
<1>5. Divides(t, "receiver", SettleTarget(t, n), n)
  BY <1>1, <1>3, <1>4, SplittingDivides
<1> QED BY <1>1, <1>5 DEF Settles

(* The copies a giver delivers are pins of the settled part or promised to *)
(* nobody, so the pins of every other trade, and of the part that remains, *)
(* are still there.                                                        *)
LEMMA GivingSettles ==
  ASSUME ConstantsAssumption, IInv, DealsHold, NEW t \in TradeIds, NEW n \in Quantities,
         NEW chosen, NEW r \in Answers, ApplyGiver(t, n, chosen, r)
  PROVE  Settles(t, "giver", n)
<1> DEFINE s == SettleTarget(t, n)
           st == SettledStatus(t, "giver", n)
<1>1. /\ ClaimSettleTarget(t, "giver", n, "apply", r) /\ chosen \subseteq Deliverable(t)
      /\ chosen # {} => Cardinality(chosen) = n
  BY DEF ApplyGiver
<1>p. PICK M \in SplitPins(t, n, chosen) :
        LET disposed == IF chosen = {} THEN M ELSE chosen
        IN  /\ DeleteCopies(disposed, GiverPins(t, n, M))
            /\ moved' = Moved(t, "giver", Cardinality(disposed))
            /\ status' = st \/ status' = SweptStatus(terms[t].giver, st)
  BY DEF ApplyGiver
<1>2. PICK disposed :
        /\ chosen = {} => disposed = M
        /\ chosen # {} => disposed = chosen
        /\ DeleteCopies(disposed, GiverPins(t, n, M))
        /\ moved' = Moved(t, "giver", Cardinality(disposed))
        /\ status' = st \/ status' = SweptStatus(terms[t].giver, st)
  BY <1>p
<1>3. /\ s \in TradeIds /\ n \in Nat /\ n \in 1..quantity[t] /\ "giver" \notin settled[t]
      /\ s # t => status[s] = "none" /\ pins[s] = {}
      /\ M \in SUBSET pins[t] /\ chosen \cap pins[t] \subseteq M
  BY <1>1, ClaimedTarget DEF SplitPins, ClaimSettleTarget, MaySettle
<1>4. /\ st \in [TradeIds -> Statuses] /\ st[s] \in {"reserved", "completed"}
      /\ \A u \in TradeIds : u # s => st[u] = status[u]
  BY <1>3, SettledStatusOfTarget
<1>g. /\ s # t => GiverPins(t, n, M)[t] = pins[t] \ M
      /\ \A u \in TradeIds : u \notin {s, t} => GiverPins(t, n, M)[u] = pins[u]
  BY <1>3, SplitPinsMove, SplitPinsElsewhere
<1>h. s = SettleTarget(t, n)
  OBVIOUS
<1> HIDE DEF s, st
<1>5. /\ status'[s] \in {"reserved", "completed"}
      /\ \A u \in TradeIds : u # s =>
           status'[u] = status[u] \/ (status[u] = "pending" /\ status'[u] = "cancelled")
  <2>1. \A u \in TradeIds :
          status'[u] = st[u] \/ (st[u] = "pending" /\ status'[u] = "cancelled")
    BY <1>2, <1>4, SweptStatusClosesPending
  <2> QED BY <1>3, <1>4, <2>1
<1>6. /\ disposed \cap pins[t] \subseteq M
      /\ \A u \in TradeIds : u # t => disposed \cap pins[u] = {}
  <2>1. \A u \in TradeIds : u # t => pins[u] \cap pins[t] = {}
    BY DEF IInv, PromisedOnce
  <2>2. \A c \in chosen : c \in pins[t] \/ c \notin Pinned
    BY <1>1 DEF Deliverable, FreePersonal
  <2>3. \A c \in disposed : c \in pins[t] \/ c \notin Pinned
    BY <1>2, <1>3, <2>2
  <2> QED BY <1>2, <1>3, <2>1, <2>3 DEF Pinned
<1>7. /\ place' = [c \in Copies |-> IF c \in disposed THEN Nowhere ELSE place[c]]
      /\ pins' = [u \in TradeIds |-> GiverPins(t, n, M)[u] \ disposed]
      /\ requested' = [u \in TradeIds |-> requested[u] \ disposed]
      /\ bereft' = bereft \cup {u \in TradeIds :
                      status[u] = "pending" /\ requested[u] \cap disposed # {}}
  BY <1>2 DEF DeleteCopies, CascadeCopies
<1>8. \A u \in TradeIds : u \notin {s, t} => pins'[u] = pins[u]
  BY <1>6, <1>7, <1>g
<1>9. OwesCopies(t) /\ root[t] \notin bereft /\ s # t =>
        Cardinality(pins'[t]) = quantity[t] - n
  <2>1. OwesCopies(t) /\ root[t] \notin bereft => Cardinality(pins[t]) = quantity[t]
    BY DEF DealsHold, PinsCoverQuantity
  <2>2. s # t => pins'[t] = pins[t] \ M
    BY <1>6, <1>7, <1>g
  <2>3. ASSUME OwesCopies(t), root[t] \notin bereft
        PROVE  Cardinality(pins[t] \ M) = quantity[t] - n
    <3>1. n \in 1..quantity[t] /\ Cardinality(pins[t]) = quantity[t]
      BY <1>3, <2>1, <2>3
    <3>2. M \in SplitPins(t, n, chosen)
      BY <1>p
    <3> QED BY <3>1, <3>2, SplitPinsCount
  <2> QED BY <2>2, <2>3
<1>10. ASSUME NEW u \in TradeIds, status[u] = "pending"
       PROVE  requested'[u] = requested[u] \/ u \in bereft'
  <2>1. CASE requested[u] \cap disposed = {}
    <3>1. requested'[u] = requested[u] \ disposed
      BY <1>7
    <3> QED BY <2>1, <3>1
  <2>2. CASE requested[u] \cap disposed # {}
    BY <1>7, <1>10, <2>2
  <2> QED BY <2>1, <2>2
<1>11. StaysPut
  <2>1. ASSUME NEW u \in TradeIds, NEW c \in pins[u], place'[c] # place[c]
        PROVE  root'[s] = root[u] /\ "giver" \in settled'[s] \ settled[s]
    <3>1. c \in Copies
      BY <2>1 DEF IInv, TypeOK
    <3>2. c \in disposed
      BY <1>7, <2>1, <3>1
    <3>3. u = t
      BY <1>6, <2>1, <3>2
    <3>4. /\ root' = [root EXCEPT ![s] = root[t]]
          /\ settled' = [settled EXCEPT ![s] = settled[t] \cup {"giver"}]
      BY <1>1, <1>h DEF ClaimSettleTarget, SidesAfter
    <3>5. "giver" \notin settled[s]
      BY <1>3 DEF IInv, CompletedWhenBothSettled
    <3> QED BY <1>3, <3>3, <3>4, <3>5 DEF IInv, TypeOK
  <2> QED BY <1>3, <2>1 DEF StaysPut
<1>m. \A u \in TradeIds, x \in Roles :
        /\ moved'[u][x] <= moved[u][x] + n
        /\ u # root[t] \/ x # "giver" => moved'[u][x] = moved[u][x]
  <2>1. Cardinality(disposed) \in Nat /\ Cardinality(disposed) <= n
    <3>1. CASE chosen # {}
      BY <1>1, <1>2, <1>3, <3>1
    <3>2. CASE chosen = {}
      <4>1. IsFiniteSet(pins[t])
        BY FS_Subset DEF ConstantsAssumption, IInv, TypeOK
      <4>2. Cardinality(pins[t]) \in Nat
        BY <4>1, FS_CardinalityType
      <4>3. Cardinality(M) = IF n < Cardinality(pins[t]) THEN n ELSE Cardinality(pins[t])
        BY DEF SplitPins
      <4> QED BY <1>2, <1>3, <3>2, <4>2, <4>3
    <3> QED BY <3>1, <3>2
  <2> DEFINE k == Cardinality(disposed)
  <2>2. k \in Nat /\ k <= n /\ moved' = Moved(t, "giver", k)
    BY <1>2, <2>1
  <2>3. n \in Nat /\ "giver" \in Roles
    BY <1>3 DEF Roles
  <2> HIDE DEF k
  <2> QED BY <2>2, <2>3, MovedAtMost
<1>12. Divides(t, "giver", s, n)
  BY <1>5, <1>7, <1>8, <1>9, <1>10, <1>11, <1>m DEF Divides
<1> QED BY <1>1, <1>12, <1>h DEF Settles

(* Every step is of one of five kinds.                                     *)
Creates ==
  \E g \in Groups, giver, receiver \in Users, initiator \in Roles, n \in Quantities,
     names \in SUBSET Copies : CreateTrade(g, giver, receiver, initiator, n, names)
Resizes == \E t \in TradeIds, n \in Quantities : SetTradeQuantity(t, n)
Accepts == \E t \in TradeIds, P \in SUBSET Copies : AcceptTrade(t, P)

LEMMA FiveKindsOfSteps ==
  ASSUME ConstantsAssumption, IInv, DealsHold, [Next]_vars
  PROVE  \/ Retreats \/ Creates \/ Resizes \/ Accepts
         \/ \E t \in TradeIds, role \in Roles, n \in Quantities : Settles(t, role, n)
<1>q. Quiet => Retreats
  BY QuietRetreats
<1>c. Collectors \subseteq Users
  BY DEF ConstantsAssumption
<1>1. CASE Asking
  <2>1. ASSUME NEW t \in TradeIds, CancelTrade(t) PROVE Retreats
    BY <2>1, CancelRetreats
  <2> QED BY <1>1, <2>1 DEF Asking, Creates, Resizes, NamedSets
<1>2. CASE Answering
  <2>1. ASSUME NEW t \in TradeIds,
               AcceptVanished(t) \/ AcceptNamedGone(t) \/ DeclineTrade(t)
        PROVE  Quiet
    BY <2>1, AnswersAreQuiet
  <2> QED BY <1>q, <1>2, <2>1, ExpiryIsQuiet DEF Answering, Accepts
<1>3. CASE Settling
  <2>1. ASSUME NEW t \in TradeIds, NEW n \in Quantities, NEW r \in Answers,
               \/ \E chosen : ApplyGiver(t, n, chosen, r)
               \/ \E fresh, dest : ApplyReceiver(t, n, fresh, dest, r)
               \/ \E role \in Roles : SkipSync(t, role, n, r)
        PROVE  \E role \in Roles : Settles(t, role, n)
    BY <2>1, GivingSettles, ReceivingSettles, SkippingSettles
  <2> QED BY <1>3, <2>1 DEF Settling, Reserved
<1>4. CASE Collecting \/ Adding
  <2>1. ASSUME NEW u \in Users, NEW c \in Copies,
               \/ \E dest \in Users \cup Groups : AddCopy(u, c, dest)
               \/ \E g \in Groups : MoveToGroup(u, c, g)
               \/ MoveToPersonal(u, c)
        PROVE  Quiet
    BY <2>1, CopyStepsAreQuiet
  <2>2. ASSUME NEW u \in Users, NEW S \in SUBSET Copies, DisposeCopies(u, S)
        PROVE  Quiet
    BY <2>2, DeletionsAreQuiet
  <2>3. ASSUME NEW u \in Users, ResetCollections(u)
        PROVE  Quiet
    <3>1. PICK S \in SUBSET Copies : S = {c \in Copies : place[c] = u}
      OBVIOUS
    <3> QED BY <2>3, <3>1, DeletionsAreQuiet
  <2> QED BY <1>c, <1>q, <1>4, <2>1, <2>2, <2>3 DEF Collecting, Adding
<1>5. CASE Lending \/ Listing
  <2>1. ASSUME NEW u \in Users, NEW S \in SUBSET Copies, WriteOffLoan(u, S)
        PROVE  Quiet
    BY <2>1, DeletionsAreQuiet
  <2>2. ASSUME NEW u \in Users,
               \/ \E S \in SUBSET Copies : LendCopies(u, S) \/ ReturnCopies(u, S)
               \/ \E c \in Copies, g \in Groups : OfferCopy(u, c, g)
               \/ \E c \in Copies : UnlistCopy(u, c)
               \/ \E g \in Groups : UnshareList(u, g)
               \/ \E n \in 0..MaxQuantity : EditWish(u, n)
        PROVE  Quiet
    BY <2>2, LendingAndListingAreQuiet
  <2> QED BY <1>c, <1>q, <1>5, <2>1, <2>2 DEF Lending, Listing
<1>6. CASE Membership
  BY <1>6, LeavingRetreats, DeletingGroupRetreats, DeletingUserRetreats DEF Membership
<1>7. CASE UNCHANGED vars
  BY <1>q, <1>7, StutteringIsQuiet
<1> QED BY <1>1, <1>2, <1>3, <1>4, <1>5, <1>6, <1>7 DEF Next

LEMMA StepKeepsDeals ==
  ASSUME ConstantsAssumption, IInv, DealsHold, [Next]_vars
  PROVE  DealsHold' /\ StaysOpen /\ StaysPut
<1>1. CASE Retreats
  BY <1>1, RetreatingKeepsDeals
<1>2. CASE Creates
  BY <1>2, CreateTradeKeepsDeals DEF Creates
<1>3. CASE Resizes
  BY <1>3, SetTradeQuantityKeepsDeals DEF Resizes
<1>4. CASE Accepts
  BY <1>4, AcceptTradeKeepsDeals DEF Accepts
<1>5. ASSUME NEW t \in TradeIds, NEW role \in Roles, NEW n \in Quantities,
             Settles(t, role, n)
      PROVE  DealsHold' /\ StaysOpen /\ StaysPut
  BY <1>5, DividingKeepsDeals DEF Settles
<1> QED BY <1>1, <1>2, <1>3, <1>4, <1>5, FiveKindsOfSteps

(* What the rows say about the agreement behind them holds throughout.     *)
THEOREM DealsInvariant == Spec => []DealsHold
<1> USE ConstantsAssumption
<1>1. Init => DealsHold
  BY InitDeals
<1>2. IInv /\ DealsHold /\ [Next]_vars => DealsHold'
  BY StepKeepsDeals
<1> QED BY <1>1, <1>2, TradesInvariant, PTL DEF Spec

(* At most one live trade per group, giver and receiver, splits included.  *)
THEOREM OneLiveTradeEach == Spec => []OneLiveTrade
BY DealsInvariant, PTL DEF DealsHold

(* The parties of a live, unsettled trade are members of its group.        *)
THEOREM LiveTradesHaveMembers == Spec => []LiveTradesAreBetweenMembers
BY DealsInvariant, PTL DEF DealsHold

(* A settlement request settles at most once, however often it is sent.    *)
THEOREM RetriesAreSafe == Spec => []RetriesSettleOnce
BY DealsInvariant, PTL DEF DealsHold

(* A reservation holds one copy for each the giver owes, in every split.   *)
THEOREM ReservationsAreCovered == Spec => []PinsCoverQuantity
BY DealsInvariant, PTL DEF DealsHold

(* A trade one side has settled is cancelled only with its group or with   *)
(* the account of a party.                                                 *)
THEOREM SettledTradesStayOpen == Spec => SettledTradeStaysOpen
<1> USE ConstantsAssumption
<1>1. IInv /\ DealsHold /\ [Next]_vars => [StaysOpen]_vars
  BY StepKeepsDeals
<1>2. Spec => [][StaysOpen]_vars
  <2> HIDE DEF StaysOpen
  <2> QED BY <1>1, TradesInvariant, DealsInvariant, PTL DEF Spec
<1> QED BY <1>2 DEF StaysOpen, SettledTradeStaysOpen

(* A promised copy leaves its place only through the settlement it was     *)
(* promised for or with its giver's account.                               *)
THEOREM PromisedCopiesAreKept == Spec => PromisedCopyKept
<1> USE ConstantsAssumption
<1>1. IInv /\ DealsHold /\ [Next]_vars => [StaysPut]_vars
  BY StepKeepsDeals
<1>2. Spec => [][StaysPut]_vars
  <2> HIDE DEF StaysPut
  <2> QED BY <1>1, TradesInvariant, DealsInvariant, PTL DEF Spec
<1> QED BY <1>2 DEF StaysPut, PromisedCopyKept

-----------------------------------------------------------------------------
(* The giver's supply and the trades that wait for it.                     *)

HIDE DEF TradeIds, Roles

(* The row of a pending trade, as listPendingForGiverPrinting reads it.    *)
RowOf(t) == [id |-> t, group |-> terms[t].group, quantity |-> quantity[t],
             initiator |-> terms[t].initiator]

LEMMA PendingOfIsRows ==
  ASSUME NEW STATE u, NEW STATE st, NEW r
  PROVE  r \in PendingOf(u, st) <=>
           \E t \in TradeIds : st[t] = "pending" /\ terms[t].giver = u /\ r = RowOf(t)
BY DEF PendingOf, RowOf

LEMMA PendingOfAreRows ==
  ASSUME ConstantsAssumption, TypeOK, NEW STATE u, NEW STATE st
  PROVE  AreRows(PendingOf(u, st))
<1>1. \A r \in PendingOf(u, st) : r.id \in TradeIds /\ r = RowOf(r.id)
  BY PendingOfIsRows DEF RowOf
<1>2. TradeIds \subseteq Nat /\ \A t \in TradeIds : quantity[t] \in Nat
  <2>1. TradeIds \subseteq Nat
    BY DEF TradeIds
  <2>2. quantity \in [TradeIds -> Nat]
    BY DEF TypeOK
  <2> QED BY <2>1, <2>2
<1>3. IsFiniteSet(PendingOf(u, st))
  <2> DEFINE ids == {t \in TradeIds : st[t] = "pending" /\ terms[t].giver = u}
             row == [t \in ids |-> RowOf(t)]
  <2>1. IsFiniteSet(ids)
    <3>1. IsFiniteSet(TradeIds)
      BY FS_Interval DEF TradeIds, ConstantsAssumption
    <3> QED BY <3>1, FS_Subset
  <2>2. row \in Surjection(ids, PendingOf(u, st))
    BY PendingOfIsRows DEF Surjection
  <2> QED BY <2>1, <2>2, FS_Surjection
<1>4. \A r \in PendingOf(u, st) : r.id \in Nat /\ r.quantity \in Nat
  BY <1>1, <1>2 DEF RowOf
<1>5. \A r, s \in PendingOf(u, st) : r.id = s.id => r = s
  BY <1>1
<1> QED BY <1>3, <1>4, <1>5 DEF AreRows

(* The groups of pending trades exist, and their supplies are finite sets  *)
(* in the order the supply is read.                                        *)
LEMMA SuppliesAreStocked ==
  ASSUME ConstantsAssumption, OrderAssumption, NEW supplyByGroup,
         \A g \in Groups : supplyByGroup[g] \subseteq Copies,
         NEW pending, \A p \in pending : p.group \in Groups
  PROVE  Stocked(pending, supplyByGroup)
<1> SUFFICES ASSUME NEW p \in pending
             PROVE  /\ IsFiniteSet(supplyByGroup[p.group])
                    /\ Ranked(p.group, supplyByGroup[p.group])
  BY DEF Stocked
<1>1. supplyByGroup[p.group] \subseteq Copies
  OBVIOUS
<1>2. IsFiniteSet(supplyByGroup[p.group])
  BY <1>1, FS_Subset DEF ConstantsAssumption
<1>3. Ranked(p.group, supplyByGroup[p.group])
  <2>1. /\ SupplyOrder[p.group] \in [Copies -> Nat]
        /\ \A c, d \in Copies : SupplyOrder[p.group][c] = SupplyOrder[p.group][d] => c = d
    BY DEF OrderAssumption
  <2> QED BY <1>1, <2>1 DEF Ranked
<1> QED BY <1>2, <1>3

LEMMA SuppliesAreCopies ==
  ASSUME TypeOK, NEW u \in Users, NEW g \in Groups
  PROVE  SupplyByGroup[u][g] \subseteq Copies
BY DEF SupplyByGroup, Supply, TypeOK

LEMMA PendingGroups ==
  ASSUME LiveTradesAreBetweenMembers, NEW STATE u, NEW STATE st,
         \A t \in TradeIds : st[t] = "pending" => status[t] = "pending"
  PROVE  \A r \in PendingOf(u, st) : r.group \in Groups
BY PendingOfIsRows DEF RowOf, LiveTradesAreBetweenMembers, HoldsLiveSlot

(* What the sweep leaves can be filled, from the supply it has seen.       *)
LEMMA SweepingFills ==
  ASSUME ConstantsAssumption, OrderAssumption, TypeOK, TypeOK', LiveTradesAreBetweenMembers,
         NEW u \in Users, NEW STATE st, status' = SweptStatus(u, st),
         UNCHANGED <<terms, quantity>>,
         \A t \in TradeIds : st[t] = "pending" => status[t] = "pending"
  PROVE  AllFillable(u)'
<1> DEFINE pending == PendingOf(u, st)
           supply  == SupplyByGroup'[u]
           rest    == PendingOf(u, status)'
<1>1. AreRows(pending)
  BY PendingOfAreRows
<1>2. Stocked(pending, supply)
  <2>1. \A p \in pending : p.group \in Groups
    BY PendingGroups
  <2>2. \A g \in Groups : supply[g] \subseteq Copies
    BY DEF SupplyByGroup, Supply, TypeOK
  <2> HIDE DEF pending, supply
  <2> QED BY <2>1, <2>2, SuppliesAreStocked
<1>3. \A r : r \in rest <=>
        /\ r \in pending /\ r.id \notin AutoCancelled(pending, supply)
  <2>1. \A t \in TradeIds : status'[t] = "pending" <=>
          st[t] = "pending" /\ t \notin AutoCancelled(pending, supply)
    BY DEF SweptStatus
  <2>2. \A t : RowOf(t)' = RowOf(t) /\ RowOf(t).id = t
    BY DEF RowOf
  <2>3. \A r : r \in rest <=>
          \E t \in TradeIds : status'[t] = "pending" /\ terms[t].giver = u /\ r = RowOf(t)
    BY <2>2 DEF PendingOf, RowOf
  <2>4. \A r : r \in pending <=>
          \E t \in TradeIds : st[t] = "pending" /\ terms[t].giver = u /\ r = RowOf(t)
    BY PendingOfIsRows
  <2> HIDE DEF rest, pending, supply
  <2> QED BY <2>1, <2>2, <2>3, <2>4
<1> HIDE DEF pending, rest, supply
<1>4. rest \in SUBSET pending /\ \A p \in rest : p.id \notin AutoCancelled(pending, supply)
  BY <1>3
<1>5. AutoCancelled(rest, supply) = {}
  BY <1>1, <1>2, <1>4, SurvivorsAreFillable
<1>6. AreRows(rest) /\ Stocked(rest, supply)
  BY <1>1, <1>2, <1>4, FS_Subset DEF AreRows, Stocked
<1>7. JointlyFillable(rest, supply)
  BY <1>5, <1>6, FillableTogether
<1> QED BY <1>7 DEF AllFillable, rest, supply

(* Every operation that sweeps does so after its other changes.            *)
LEMMA SweepingStepsSweep ==
  ASSUME ConstantsAssumption, OrderAssumption, TypeOK, TypeOK', LiveTradesAreBetweenMembers,
         NEW u \in Users, SweepingStep(u)
  PROVE  AllFillable(u)'
<1>1. CASE \/ \E S \in SUBSET Copies : DisposeCopies(u, S) \/ WriteOffLoan(u, S)
           \/ \E c \in Copies :
                MoveToPersonal(u, c) \/ \E g \in Groups : MoveToGroup(u, c, g)
  <2>1. status' = SweptStatus(u, status) /\ UNCHANGED <<terms, quantity>>
    BY <1>1 DEF DisposeCopies, WriteOffLoan, OnlyCopiesDeleted, MoveToPersonal, MoveToGroup
  <2> QED BY <2>1, SweepingFills
<1>2. ASSUME NEW t \in TradeIds, terms[t].giver = u,
             (\E P \in SUBSET Copies : AcceptTrade(t, P)) \/ AcceptVanished(t)
      PROVE  AllFillable(u)'
  <2>1. PICK s \in {"reserved", "cancelled"} :
          status' = SweptStatus(u, [status EXCEPT ![t] = s])
    BY <1>2 DEF AcceptTrade, AcceptVanished
  <2>2. UNCHANGED <<terms, quantity>>
    BY <1>2 DEF AcceptTrade, AcceptVanished
  <2>3. \A r \in TradeIds : [status EXCEPT ![t] = s][r] = "pending" => status[r] = "pending"
    BY DEF TypeOK
  <2> QED BY <2>1, <2>2, <2>3, SweepingFills
<1> QED BY <1>1, <1>2 DEF SweepingStep

(* A user's pending trades, when all of their rows stay as they are.       *)
LEMMA SamePendingTrades ==
  ASSUME NEW u \in Users, UNCHANGED <<place, offered, pins, lent>>
  PROVE  SupplyByGroup'[u] = SupplyByGroup[u]
BY DEF SupplyByGroup, Supply, Pinned, Lent

(* What createTrade must not do, of one step.                              *)
AgreesWithSweep ==
  \A t \in TradeIds : status[t] = "none" /\ status'[t] = "pending" =>
    \A u \in Users : /\ t \notin SweepCancels(u)'
                     /\ SweepCancelsOffers(u)' \subseteq SweepCancelsOffers(u)

LEMMA CreationAgrees ==
  ASSUME ConstantsAssumption, OrderAssumption, IInv, IInv', LiveTradesAreBetweenMembers,
         LiveTradesAreBetweenMembers', Creates
  PROVE  AgreesWithSweep
<1>c. PICK g \in Groups, giver \in Users, receiver \in Users, initiator \in Roles,
           n \in Quantities, names \in SUBSET Copies :
             CreateTrade(g, giver, receiver, initiator, n, names)
  BY DEF Creates
<1> SUFFICES ASSUME NEW k \in TradeIds, status[k] = "none", status'[k] = "pending",
                    NEW u \in Users
             PROVE  /\ k \notin SweepCancels(u)'
                    /\ SweepCancelsOffers(u)' \subseteq SweepCancelsOffers(u)
  BY DEF AgreesWithSweep
<1>k. k = NextId
  BY <1>c DEF CreateTrade, IInv, TypeOK
<1> DEFINE new     == [id |-> k, group |-> g, quantity |-> n, initiator |-> initiator]
           pending == PendingOf(u, status)
           more    == PendingOf(u, status)'
           supply  == SupplyByGroup[u]
<1>1. /\ k \in TradeIds /\ k \in Nat
      /\ status[k] = "none"
      /\ \A t \in TradeIds : t > k => status[t] = "none"
  BY <1>k DEF NextId, TradeIds, IInv, TypeOK, RowsInOrder, ConstantsAssumption
<1>2. SupplyByGroup'[u] = supply
  BY <1>c, SamePendingTrades DEF CreateTrade
<1>3. /\ status' = [status EXCEPT ![k] = "pending"]
      /\ terms' = [terms EXCEPT ![k] = [group |-> g, giver |-> giver,
                                            receiver |-> receiver, initiator |-> initiator]]
      /\ quantity' = [quantity EXCEPT ![k] = n]
      /\ n <= AvailableCount({r \in PendingOf(giver, status) : r.id # 0},
                             SupplyByGroup[giver], g)
  BY <1>c, <1>k DEF CreateTrade, AssertSupplyAvailable
<1>t. DOMAIN status = TradeIds /\ DOMAIN terms = TradeIds /\ DOMAIN quantity = TradeIds
  BY DEF IInv, TypeOK
<1>s. \A t \in TradeIds : status'[t] = IF t = k THEN "pending" ELSE status[t]
  BY <1>3, <1>t
<1>m. \A t \in TradeIds \ {k} : terms'[t] = terms[t] /\ quantity'[t] = quantity[t]
  BY <1>3, <1>t
<1>n. /\ terms'[k].giver = giver /\ terms'[k].initiator = initiator
      /\ terms'[k].group = g /\ quantity'[k] = n
  BY <1>1, <1>3, <1>t
<1>r. /\ \A t \in TradeIds \ {k} : RowOf(t)' = RowOf(t)
      /\ RowOf(k)' = new
  <2>1. ASSUME NEW t \in TradeIds, t # k PROVE RowOf(t)' = RowOf(t)
    <3>1. terms'[t] = terms[t] /\ quantity'[t] = quantity[t]
      BY <1>m, <2>1
    <3> QED BY <3>1 DEF RowOf
  <2>2. RowOf(k)' = new
    BY <1>n DEF RowOf
  <2> QED BY <2>1, <2>2
<1>4. \A r : r \in pending <=>
        \E t \in TradeIds : status[t] = "pending" /\ terms[t].giver = u /\ r = RowOf(t)
  BY PendingOfIsRows
<1>5. \A r : r \in more <=> \E t \in TradeIds :
        status'[t] = "pending" /\ terms'[t].giver = u /\ r = RowOf(t)'
  BY DEF PendingOf, RowOf
<1>7. \A r \in pending : r.id \in TradeIds /\ r.id < k /\ r.id # k
  <2> TAKE r \in pending
  <2>1. PICK t \in TradeIds : t = r.id /\ status[t] = "pending"
    BY <1>4 DEF RowOf
  <2>2. t \in Nat
    BY DEF TradeIds
  <2>3. t # k /\ ~(t > k)
    BY <1>1, <2>1
  <2>4. t < k
    BY <1>1, <2>2, <2>3
  <2> QED BY <2>1, <2>3, <2>4
<1>e. \A r : r.id # k /\ r \in more => r \in pending
  <2> TAKE r
  <2> SUFFICES ASSUME r.id # k, r \in more PROVE r \in pending
    OBVIOUS
  <2>1. PICK t \in TradeIds : status'[t] = "pending" /\ terms'[t].giver = u /\ r = RowOf(t)'
    BY <1>5
  <2>2. t # k
    BY <2>1 DEF RowOf
  <2>3. status[t] = "pending" /\ terms[t].giver = u /\ r = RowOf(t)
    BY <1>m, <1>r, <1>s, <2>1, <2>2
  <2> QED BY <1>4, <2>3
<1>f. \A r : r \in pending => r \in more
  <2> TAKE r
  <2> SUFFICES ASSUME r \in pending PROVE r \in more
    OBVIOUS
  <2>1. PICK t \in TradeIds : status[t] = "pending" /\ terms[t].giver = u /\ r = RowOf(t)
    BY <1>4
  <2>2. t # k
    BY <1>1, <2>1
  <2>3. status'[t] = "pending" /\ terms'[t].giver = u /\ r = RowOf(t)'
    BY <1>m, <1>r, <1>s, <2>1, <2>2
  <2> QED BY <1>5, <2>3
<1>g. \A r : r.id = k => (r \in more <=> r = new /\ giver = u)
  <2> TAKE r
  <2> SUFFICES ASSUME r.id = k PROVE r \in more <=> r = new /\ giver = u
    OBVIOUS
  <2>1. \A t \in TradeIds : r = RowOf(t)' => t = k
    BY DEF RowOf
  <2>2. status'[k] = "pending" /\ terms'[k].giver = giver /\ RowOf(k)' = new
    BY <1>1, <1>n, <1>r, <1>s
  <2> HIDE DEF new, more
  <2> QED BY <1>5, <2>1, <2>2
<1>h. new.id = k
  OBVIOUS
<1>q. Stocked(pending, supply) /\ AreRows(pending)
  <2>1. \A r \in pending : r.group \in Groups
    BY PendingGroups
  <2>2. \A h \in Groups : supply[h] \subseteq Copies
    BY SuppliesAreCopies DEF IInv
  <2>3. AreRows(pending)
    BY PendingOfAreRows DEF IInv
  <2> HIDE DEF pending, supply
  <2> QED BY <2>1, <2>2, <2>3, SuppliesAreStocked
<1>10. SweepCancels(u)' = AutoCancelled(more, supply)
  BY <1>2 DEF SweepCancels
<1>11. SweepCancels(u) = AutoCancelled(pending, supply)
  BY DEF SweepCancels
<1>12. ASSUME NEW S, AreRows(S), Stocked(S, supply)
       PROVE  AutoCancelled(S, supply) \subseteq {r.id : r \in S}
  <2>1. DOMAIN ClaimCopiesForOffers(Offers(S), supply) = Offers(S)
    BY <1>12, OffersAreRows DEF AreClaims
  <2> QED BY <2>1 DEF AutoCancelled, Unfillable, Offers, TooLarge
<1>13. CASE giver # u
  <2>1. more = pending
    <3> HIDE DEF pending, more, new
    <3> QED BY <1>13, <1>e, <1>f, <1>g
  <2>2. SweepCancels(u)' = SweepCancels(u)
    BY <1>10, <1>11, <2>1
  <2>3. SweepCancels(u) \subseteq {r.id : r \in pending}
    BY <1>11, <1>12, <1>q
  <2>4. k \notin SweepCancels(u)
    BY <1>7, <2>3
  <2>5. \A t \in SweepCancels(u) : t \in TradeIds /\ t # k
    BY <1>7, <2>3
  <2> QED BY <1>m, <2>2, <2>4, <2>5 DEF SweepCancelsOffers
<1>14. CASE giver = u
  <2>1. more = pending \cup {new}
    <3> HIDE DEF pending, more, new
    <3> QED BY <1>14, <1>e, <1>f, <1>g, <1>h
  <2>2. new.id = k /\ new.group = g /\ new.quantity = n /\ n \in Nat /\ g \in Groups
    BY DEF Quantities
  <2>3. new \notin pending /\ \A r \in pending : r.id < new.id /\ r.id # new.id
    BY <1>7
  <2>4. AreRows(more)
    <3> HIDE DEF pending, more, new
    <3>1. IsFiniteSet(more)
      BY <1>q, <2>1, FS_AddElement DEF AreRows
    <3> QED BY <1>1, <1>q, <2>1, <2>2, <2>3, <3>1 DEF AreRows
  <2>5. Stocked(more, supply)
    <3>1. \A h \in Groups : supply[h] \subseteq Copies
      BY SuppliesAreCopies DEF IInv
    <3>2. \A r \in more : r.group \in Groups
      <4>1. \A r \in pending : r.group \in Groups
        BY PendingGroups
      <4> QED BY <2>1, <2>2, <4>1
    <3> HIDE DEF more, supply
    <3> QED BY <3>1, <3>2, SuppliesAreStocked
  <2>6. new.quantity <= AvailableCount(pending, supply, new.group)
    <3>1. {r \in pending : r.id # 0} = pending
      BY <1>7 DEF TradeIds
    <3> QED BY <1>3, <1>14, <3>1
  <2>7. pending = more \ {new} /\ new \in more
    BY <2>1, <2>3
  <2> HIDE DEF pending, more, new, supply
  <2>p. \A r \in pending : r.id < new.id
    BY <2>3
  <2>i. \A o \in more :
          /\ \A r \in more \ {o} : r.id < o.id
          /\ o.quantity <= AvailableCount(more \ {o}, supply, o.group)
          => /\ o.id \notin AutoCancelled(more, supply)
             /\ \A r \in Offers(more \ {o}) : r.id \in AutoCancelled(more, supply) =>
                                               r.id \in AutoCancelled(more \ {o}, supply)
    BY <2>4, <2>5, NewTradeFits
  <2>8. /\ new.id \notin AutoCancelled(more, supply)
        /\ \A r \in Offers(pending) : r.id \in AutoCancelled(more, supply) =>
                                         r.id \in AutoCancelled(pending, supply)
    BY <2>p, <2>6, <2>7, <2>i
  <2>9. k \notin SweepCancels(u)'
    BY <1>10, <2>2, <2>8
  <2>10. ASSUME NEW t \in SweepCancelsOffers(u)' PROVE t \in SweepCancelsOffers(u)
    <3>1. t \in AutoCancelled(more, supply) /\ terms'[t].initiator = "giver"
      BY <1>10 DEF SweepCancelsOffers
    <3>2. PICK r \in more : t = r.id
      BY <1>12, <2>4, <2>5, <3>1
    <3>3. r \in pending
      BY <2>1, <2>8, <3>1, <3>2
    <3>4. t \in TradeIds /\ t # k /\ r = RowOf(t)
      BY <1>4, <1>7, <3>2, <3>3 DEF RowOf
    <3>5. terms[t].initiator = "giver" /\ r.initiator = "giver"
      BY <1>m, <3>1, <3>4 DEF RowOf
    <3>6. t \in AutoCancelled(pending, supply)
      BY <2>8, <3>1, <3>2, <3>3, <3>5 DEF Offers
    <3> QED BY <1>11, <3>5, <3>6 DEF SweepCancelsOffers
  <2> QED BY <2>9, <2>10
<1> QED BY <1>13, <1>14

LEMMA OnlyCreationOpens ==
  ASSUME ConstantsAssumption, OrderAssumption, IInv, IInv', DealsHold, DealsHold', [Next]_vars
  PROVE  AgreesWithSweep
<1>1. ASSUME NEW t \in TradeIds, status[t] = "none", status'[t] = "pending" PROVE Creates
  <2>1. ~Retreats /\ ~Accepts
    <3>1. CASE Accepts
      <4>1. PICK s \in TradeIds, P \in SUBSET Copies : AcceptTrade(s, P)
        BY <3>1 DEF Accepts
      <4> QED BY <1>1, <4>1 DEF AcceptTrade, SweptStatus
    <3> QED BY <1>1, <3>1 DEF Retreats
  <2>2. ~Resizes
    BY <1>1 DEF Resizes, SetTradeQuantity
  <2>3. ASSUME NEW s \in TradeIds, NEW role \in Roles, NEW n \in Quantities,
               Settles(s, role, n)
        PROVE  FALSE
    BY <1>1, <2>3 DEF Settles, Divides
  <2> QED BY <2>1, <2>2, <2>3, FiveKindsOfSteps
<1>2. Creates => AgreesWithSweep
  BY CreationAgrees DEF DealsHold
<1> QED BY <1>1, <1>2 DEF AgreesWithSweep

(* Every operation that ends with the sweep leaves the giver only pending  *)
(* trades that the supply can fill, all of them together.                  *)
THEOREM SweepsLeaveOnlyFillable == Spec => SweepLeavesFillable
<1> DEFINE Fills == \A u \in Users : AllFillable(u)' \/ ~SweepingStep(u)
<1>1. IInv /\ IInv' /\ DealsHold /\ [Next]_vars => [Fills]_vars
  BY ConstantsAssumption, OrderAssumption, SweepingStepsSweep DEF IInv, DealsHold
<1>2. Spec => [][Fills]_vars
  <2> HIDE DEF Fills
  <2> QED BY <1>1, TradesInvariant, DealsInvariant, PTL DEF Spec
<1> QED BY <1>2 DEF SweepLeavesFillable

(* A trade whose supply check passed survives the next sweep and takes no  *)
(* copies from an older offer.                                             *)
THEOREM CreationsAgreeWithSweep == Spec => CreationAgreesWithSweep
<1>1. IInv /\ IInv' /\ DealsHold /\ DealsHold' /\ [Next]_vars => [AgreesWithSweep]_vars
  BY ConstantsAssumption, OrderAssumption, OnlyCreationOpens
<1>2. Spec => [][AgreesWithSweep]_vars
  <2> HIDE DEF AgreesWithSweep
  <2> QED BY <1>1, TradesInvariant, DealsInvariant, PTL DEF Spec
<1> QED BY <1>2 DEF AgreesWithSweep, CreationAgreesWithSweep

-----------------------------------------------------------------------------
(* Sums over sets of trades                                                *)

LEMMA TradesAreFinite ==
  ASSUME ConstantsAssumption, NEW S \in SUBSET TradeIds
  PROVE  IsFiniteSet(S)
<1>1. IsFiniteSet(TradeIds)
  BY FS_Interval DEF ConstantsAssumption, TradeIds
<1> QED BY <1>1, FS_Subset

LEMMA ImagesAreFinite ==
  ASSUME NEW S, NEW T, NEW g, IsFiniteSet(S),
         \A t \in S : g[t] \in T, \A U \in T : \E t \in S : U = g[t]
  PROVE  IsFiniteSet(T)
<1>1. PICK seq \in Seq(S) : \A t \in S : \E n \in 1..Len(seq) : seq[n] = t
  BY DEF IsFiniteSet
<1> DEFINE h == [i \in 1..Len(seq) |-> g[seq[i]]]
<1>2. h \in Seq(T) /\ Len(h) = Len(seq)
  OBVIOUS
<1>3. \A x \in T : \E n \in 1..Len(h) : h[n] = x
  BY <1>1, <1>2
<1> HIDE DEF h
<1> QED BY <1>2, <1>3 DEF IsFiniteSet

LEMMA UnitsAreFinite ==
  ASSUME ConstantsAssumption, NEW f \in [TradeIds -> Nat], NEW S \in SUBSET TradeIds
  PROVE  IsFiniteSet(Units(f, S))
<1> DEFINE g == [t \in S |-> {t} \X (1..f[t])]
           T == {{t} \X (1..f[t]) : t \in S}
<1>1. /\ \A t \in S : g[t] \in T
      /\ \A U \in T : \E t \in S : U = g[t] /\ f[t] \in Nat /\ U = {t} \X (1..f[t])
  OBVIOUS
<1>2. Units(f, S) = UNION T
  BY DEF Units
<1> HIDE DEF g, T
<1>3. ASSUME NEW U \in T PROVE IsFiniteSet(U)
  <2>1. PICK t \in S : f[t] \in Nat /\ U = {t} \X (1..f[t])
    BY <1>1
  <2> QED BY <2>1, UnitsOfOne
<1>4. IsFiniteSet(T)
  <2>1. IsFiniteSet(S)
    BY TradesAreFinite
  <2>2. (\A t \in S : g[t] \in T) /\ (\A U \in T : \E t \in S : U = g[t])
    BY <1>1
  <2> QED BY <2>1, <2>2, ImagesAreFinite
<1> QED BY <1>2, <1>3, <1>4, FS_UNION

LEMMA SumIsNatural ==
  ASSUME ConstantsAssumption, NEW f \in [TradeIds -> Nat], NEW S \in SUBSET TradeIds
  PROVE  Sum(f, S) \in Nat
BY UnitsAreFinite, FS_CardinalityType DEF Sum

LEMMA SumOfNone == \A f : Sum(f, {}) = 0
BY FS_EmptySet DEF Sum, Units

LEMMA SumOfOne ==
  ASSUME NEW f \in [TradeIds -> Nat], NEW t \in TradeIds
  PROVE  Sum(f, {t}) = f[t]
<1>1. Units(f, {t}) = {t} \X (1..f[t])
  BY DEF Units
<1> QED BY <1>1, UnitsOfOne DEF Sum

LEMMA SumOfBoth ==
  ASSUME ConstantsAssumption, NEW f \in [TradeIds -> Nat],
         NEW S \in SUBSET TradeIds, NEW T \in SUBSET TradeIds, S \cap T = {}
  PROVE  Sum(f, S \cup T) = Sum(f, S) + Sum(f, T)
<1>1. Units(f, S \cup T) = Units(f, S) \cup Units(f, T)
  BY DEF Units
<1>2. Units(f, S) \cap Units(f, T) = {}
  <2>1. \A R : \A p \in Units(f, R) : p[1] \in R
    BY DEF Units
  <2> QED BY <2>1
<1>3. IsFiniteSet(Units(f, S)) /\ IsFiniteSet(Units(f, T))
  BY UnitsAreFinite
<1>4. Cardinality(Units(f, S) \cup Units(f, T)) =
        Cardinality(Units(f, S)) + Cardinality(Units(f, T))
          - Cardinality(Units(f, S) \cap Units(f, T))
  BY <1>3, FS_Union
<1>5. Cardinality(Units(f, S)) \in Nat /\ Cardinality(Units(f, T)) \in Nat
  BY <1>3, FS_CardinalityType
<1>6. Cardinality(Units(f, S) \cap Units(f, T)) = 0
  BY <1>2, FS_EmptySet
<1>7. Cardinality(Units(f, S) \cup Units(f, T)) =
        Cardinality(Units(f, S)) + Cardinality(Units(f, T))
  BY <1>4, <1>5, <1>6
<1> QED BY <1>1, <1>7 DEF Sum

(* A sum reads only the rows it is over.                                   *)
LEMMA SumReadsItsRows ==
  ASSUME NEW S, NEW f, NEW g, \A t \in S : f[t] = g[t]
  PROVE  Sum(f, S) = Sum(g, S)
<1>1. Units(f, S) = Units(g, S)
  BY DEF Units
<1> QED BY <1>1 DEF Sum

(* A part is no more than the whole, and less if a row that counts is left *)
(* out.                                                                    *)
LEMMA SumOfPart ==
  ASSUME ConstantsAssumption, NEW f \in [TradeIds -> Nat],
         NEW S \in SUBSET TradeIds, NEW T \in SUBSET S
  PROVE  /\ Sum(f, T) <= Sum(f, S)
         /\ \A t \in S \ T : f[t] > 0 => Sum(f, T) < Sum(f, S)
<1>1. ASSUME NEW R \in SUBSET S PROVE Sum(f, R) <= Sum(f, S)
  <2>1. R \in SUBSET TradeIds /\ S \ R \in SUBSET TradeIds /\ R \cap (S \ R) = {}
    OBVIOUS
  <2>2. Sum(f, R \cup (S \ R)) = Sum(f, R) + Sum(f, S \ R)
    BY <2>1, SumOfBoth
  <2>3. R \cup (S \ R) = S
    OBVIOUS
  <2>4. Sum(f, R \cup (S \ R)) = Sum(f, S)
    BY <2>3
  <2>5. Sum(f, R) \in Nat /\ Sum(f, S \ R) \in Nat
    BY <2>1, SumIsNatural
  <2> QED BY <2>2, <2>4, <2>5
<1>2. ASSUME NEW t \in S \ T, f[t] > 0 PROVE Sum(f, T) < Sum(f, S)
  <2>1. Sum(f, T \cup {t}) = Sum(f, T) + Sum(f, {t})
    <3>1. /\ T \in SUBSET TradeIds /\ {t} \in SUBSET TradeIds
          /\ T \cap {t} = {} /\ T \cup {t} \in SUBSET S
      OBVIOUS
    <3> QED BY <3>1, SumOfBoth
  <2>2. Sum(f, {t}) = f[t]
    BY SumOfOne
  <2>3. Sum(f, T \cup {t}) <= Sum(f, S)
    BY <1>1
  <2>4. Sum(f, T) \in Nat /\ Sum(f, S) \in Nat /\ f[t] \in Nat
    BY SumIsNatural
  <2> QED BY <1>2, <2>1, <2>2, <2>3, <2>4
<1> QED BY <1>1, <1>2

(* The rows of P that side x has settled, when se says who settled which.  *)
SettledBy(x, se, P) == {u \in P : x \in se[u]}

(* A settlement moves n copies of row t to row s, and they count as settled *)
(* by role from then on; when it settles all of t, s is t itself.  f and se *)
(* are the quantities and the settled sides before, g and sf those after;  *)
(* P are rows with t among them, Q the same rows afterwards.               *)
MovesPart(f, g, se, sf, t, role, s, n, P, Q) ==
  /\ f \in [TradeIds -> Nat] /\ g \in [TradeIds -> Nat]
  /\ se \in [TradeIds -> SUBSET Roles] /\ sf \in [TradeIds -> SUBSET Roles]
  /\ t \in TradeIds /\ s \in TradeIds /\ n \in Nat /\ role \in Roles
  /\ n <= f[t] /\ g[s] = n
  /\ IF s = t THEN f[t] = n ELSE g[t] = f[t] - n
  /\ \A u \in TradeIds : u \notin {s, t} => g[u] = f[u]
  /\ role \notin se[t] /\ sf[s] = se[t] \cup {role}
  /\ \A u \in TradeIds : u # s => sf[u] = se[u]
  /\ P \in SUBSET TradeIds /\ t \in P /\ (s # t => s \notin P) /\ Q = P \cup {s}

LEMMA SettlingSums ==
  ASSUME ConstantsAssumption, NEW f, NEW g, NEW se, NEW sf, NEW t, NEW role, NEW s, NEW n,
         NEW P, NEW Q, MovesPart(f, g, se, sf, t, role, s, n, P, Q)
  PROVE  /\ Sum(g, Q) = Sum(f, P)
         /\ Sum(g, SettledBy(role, sf, Q)) = Sum(f, SettledBy(role, se, P)) + n
         /\ \A x \in Roles \ {role} :
              Sum(g, SettledBy(x, sf, Q)) = Sum(f, SettledBy(x, se, P))
<1>0. /\ f \in [TradeIds -> Nat] /\ g \in [TradeIds -> Nat]
      /\ se \in [TradeIds -> SUBSET Roles] /\ sf \in [TradeIds -> SUBSET Roles]
      /\ t \in TradeIds /\ s \in TradeIds /\ n \in Nat /\ role \in Roles
      /\ n <= f[t] /\ g[s] = n
      /\ (s # t => g[t] = f[t] - n) /\ (s = t => f[t] = n)
      /\ \A u \in TradeIds : u \notin {s, t} => g[u] = f[u]
      /\ role \notin se[t] /\ sf[s] = se[t] \cup {role}
      /\ \A u \in TradeIds : u # s => sf[u] = se[u]
      /\ P \in SUBSET TradeIds /\ t \in P /\ (s # t => s \notin P) /\ Q = P \cup {s}
  BY DEF MovesPart
<1> USE <1>0
<1>1. ASSUME NEW R \in SUBSET TradeIds, s \notin R, t \notin R
      PROVE  /\ Sum(g, R) = Sum(f, R)
             /\ Sum(g, R \cup {s}) = Sum(f, R) + n
             /\ Sum(g, R \cup {s, t}) = Sum(f, R \cup {t})
  <2>1. Sum(g, R) = Sum(f, R) /\ Sum(f, R) \in Nat
    <3>1. \A u \in R : g[u] = f[u]
      BY <1>1
    <3> QED BY <3>1, SumReadsItsRows, SumIsNatural
  <2>2. Sum(g, R \cup {s}) = Sum(f, R) + n
    <3>1. R \cap {s} = {} /\ {s} \in SUBSET TradeIds
      BY <1>1
    <3>2. Sum(g, R \cup {s}) = Sum(g, R) + Sum(g, {s})
      BY <3>1, SumOfBoth
    <3>3. Sum(g, {s}) = n
      BY SumOfOne
    <3> QED BY <2>1, <3>2, <3>3
  <2>3. Sum(f, R \cup {t}) = Sum(f, R) + f[t]
    <3>1. R \cap {t} = {} /\ {t} \in SUBSET TradeIds
      BY <1>1
    <3>2. Sum(f, R \cup {t}) = Sum(f, R) + Sum(f, {t})
      BY <3>1, SumOfBoth
    <3>3. Sum(f, {t}) = f[t]
      BY SumOfOne
    <3> QED BY <3>2, <3>3
  <2>4. Sum(g, R \cup {s, t}) = Sum(f, R) + f[t]
    <3>1. CASE s = t
      <4>1. R \cup {s, t} = R \cup {s}
        BY <3>1
      <4>2. Sum(g, R \cup {s, t}) = Sum(g, R \cup {s})
        BY <4>1
      <4> QED BY <2>2, <3>1, <4>2
    <3>2. CASE s # t
      <4>1. /\ (R \cup {s}) \cap {t} = {} /\ {t} \in SUBSET TradeIds
            /\ R \cup {s} \in SUBSET TradeIds
            /\ R \cup {s, t} = (R \cup {s}) \cup {t}
        BY <1>1, <3>2
      <4>2. Sum(g, (R \cup {s}) \cup {t}) = Sum(g, R \cup {s}) + Sum(g, {t})
        BY <4>1, SumOfBoth
      <4>3. Sum(g, {t}) = f[t] - n
        BY <3>2, SumOfOne
      <4>4. Sum(g, R \cup {s, t}) = Sum(g, (R \cup {s}) \cup {t})
        BY <4>1
      <4>5. f[t] \in Nat
        OBVIOUS
      <4> QED BY <2>1, <2>2, <4>2, <4>3, <4>4, <4>5
    <3> QED BY <3>1, <3>2
  <2> QED BY <2>1, <2>2, <2>3, <2>4
<1>2. Sum(g, P \cup {s}) = Sum(f, P)
  <2>1. /\ P \ {t} \in SUBSET TradeIds /\ s \notin P \ {t} /\ t \notin P \ {t}
        /\ P \cup {s} = (P \ {t}) \cup {s, t} /\ P = (P \ {t}) \cup {t}
    OBVIOUS
  <2>2. Sum(g, (P \ {t}) \cup {s, t}) = Sum(f, (P \ {t}) \cup {t})
    BY <1>1, <2>1
  <2> QED BY <2>1, <2>2
<1>3. ASSUME NEW x \in Roles
      PROVE  /\ x = role => Sum(g, SettledBy(x, sf, P \cup {s})) =
                               Sum(f, SettledBy(x, se, P)) + n
             /\ x # role => Sum(g, SettledBy(x, sf, P \cup {s})) =
                               Sum(f, SettledBy(x, se, P))
  <2> DEFINE R  == SettledBy(x, se, P \ {t})
             D  == SettledBy(x, se, P)
             D2 == SettledBy(x, sf, P \cup {s})
  <2>1. /\ R \in SUBSET TradeIds /\ s \notin R /\ t \notin R
        /\ x = role => D = R /\ D2 = R \cup {s}
        /\ x # role /\ x \in se[t] => D = R \cup {t} /\ D2 = R \cup {s, t}
        /\ x # role /\ x \notin se[t] => D = R /\ D2 = R
    BY DEF SettledBy
  <2> HIDE DEF R, D, D2
  <2>2. /\ Sum(g, R) = Sum(f, R) /\ Sum(g, R \cup {s}) = Sum(f, R) + n
        /\ Sum(g, R \cup {s, t}) = Sum(f, R \cup {t})
    BY <1>1, <2>1
  <2>3. R \cup {t} \in SUBSET TradeIds
    BY <2>1
  <2>4. Sum(f, R) \in Nat /\ Sum(f, R \cup {t}) \in Nat
    BY <2>1, <2>3, SumIsNatural
  <2>5. CASE x = role
    <3>1. Sum(g, D2) = Sum(g, R \cup {s}) /\ Sum(f, D) = Sum(f, R)
      BY <2>1, <2>5
    <3> QED BY <2>2, <2>4, <2>5, <3>1 DEF D, D2
  <2>6. CASE x # role /\ x \in se[t]
    <3>1. Sum(g, D2) = Sum(g, R \cup {s, t}) /\ Sum(f, D) = Sum(f, R \cup {t})
      BY <2>1, <2>6
    <3> QED BY <2>2, <2>4, <2>6, <3>1 DEF D, D2
  <2>7. CASE x # role /\ x \notin se[t]
    <3>1. Sum(g, D2) = Sum(g, R) /\ Sum(f, D) = Sum(f, R)
      BY <2>1, <2>7
    <3> QED BY <2>2, <2>4, <2>7, <3>1 DEF D, D2
  <2> QED BY <2>5, <2>6, <2>7
<1>4. Q = P \cup {s}
  OBVIOUS
<1> QED BY <1>2, <1>3, <1>4

(* The rows all sides have settled add up to the whole exactly when every  *)
(* side has settled every row.                                             *)
LEMMA EvenSums ==
  ASSUME ConstantsAssumption, IInv, NEW P \in SUBSET TradeIds,
         \A u \in P : quantity[u] > 0
  PROVE  /\ \A x \in Roles : Sum(quantity, SettledBy(x, settled, P)) <= Sum(quantity, P)
         /\ (\A x \in Roles : Sum(quantity, SettledBy(x, settled, P)) = Sum(quantity, P))
              <=> \A u \in P : settled[u] = Roles
<1>0. quantity \in [TradeIds -> Nat] /\ settled \in [TradeIds -> SUBSET Roles]
  BY DEF IInv, TypeOK
<1>1. ASSUME NEW x \in Roles
      PROVE  /\ Sum(quantity, SettledBy(x, settled, P)) <= Sum(quantity, P)
             /\ Sum(quantity, SettledBy(x, settled, P)) = Sum(quantity, P)
                  <=> \A u \in P : x \in settled[u]
  <2> DEFINE D == SettledBy(x, settled, P)
  <2>1. D \in SUBSET P /\ (D = P <=> \A u \in P : x \in settled[u])
    BY DEF SettledBy
  <2> HIDE DEF D
  <2>2. /\ Sum(quantity, D) <= Sum(quantity, P)
        /\ \A u \in P \ D : quantity[u] > 0 => Sum(quantity, D) < Sum(quantity, P)
    BY <1>0, <2>1, SumOfPart
  <2>3. Sum(quantity, D) \in Nat /\ Sum(quantity, P) \in Nat
    <3>1. D \in SUBSET TradeIds
      BY <2>1
    <3> QED BY <1>0, <3>1, SumIsNatural
  <2>4. ASSUME D # P PROVE Sum(quantity, D) # Sum(quantity, P)
    <3>1. PICK u \in P \ D : quantity[u] > 0
      BY <2>1, <2>4
    <3>2. Sum(quantity, D) < Sum(quantity, P)
      BY <2>2, <3>1
    <3> QED BY <2>3, <3>2
  <2>5. Sum(quantity, D) = Sum(quantity, P) <=> D = P
    BY <2>4
  <2>6. /\ Sum(quantity, D) <= Sum(quantity, P)
        /\ Sum(quantity, D) = Sum(quantity, P) <=> \A u \in P : x \in settled[u]
    BY <2>1, <2>2, <2>5
  <2> QED BY <2>6 DEF D
<1>2. \A u \in P : settled[u] = Roles <=> \A x \in Roles : x \in settled[u]
  BY <1>0
<1>3. (\A x \in Roles : Sum(quantity, SettledBy(x, settled, P)) = Sum(quantity, P))
        <=> \A x \in Roles : \A u \in P : x \in settled[u]
  BY <1>1
<1>4. (\A u \in P : settled[u] = Roles) <=> \A x \in Roles : \A u \in P : x \in settled[u]
  BY <1>2
<1> QED BY <1>1, <1>3, <1>4

-----------------------------------------------------------------------------
(* The rows of one agreement                                               *)

(* Rows split off a trade share its terms, and a trade that was split was  *)
(* not split off another.                                                  *)
PartsShareTerms ==
  \A t \in TradeIds : root[root[t]] = root[t] /\ terms[root[t]] = terms[t]

RowsCount == \A t \in TradeIds : status[t] # "none" => quantity[t] > 0

(* A row that is still open has its group and both parties; one that was   *)
(* called off after a side had settled it has lost one of them.            *)
OpenRowsAreWhole ==
  \A t \in TradeIds : status[t] \in {"pending", "reserved"} => RequireLive(t)
EarlyEndsAreBroken ==
  \A t \in TradeIds : status[t] \in Withdrawn =>
    settled[t] # Roles /\ (settled[t] # {} => ~RequireLive(t))

SharesHold == /\ PartsShareTerms
              /\ RowsCount
              /\ OpenRowsAreWhole
              /\ EarlyEndsAreBroken
              /\ SplitsConserveQuantity

(* A request is the only row of its trade.                                 *)
LEMMA LoneRows ==
  IInv /\ DealsHold =>
    \A t \in TradeIds :
      /\ status[t] = "none" => Family(t) = {} /\ settled[t] = {}
      /\ status[t] = "pending" => Family(t) = {t} /\ settled[t] = {} /\ root[t] = t
<1> SUFFICES ASSUME IInv, DealsHold, NEW t \in TradeIds, status[t] \in {"none", "pending"}
             PROVE  /\ status[t] = "none" => Family(t) = {}
                    /\ status[t] = "pending" => Family(t) = {t} /\ root[t] = t
                    /\ settled[t] = {}
  OBVIOUS
<1>1. settled[t] = {}
  BY DEF IInv, CompletedWhenBothSettled
<1>2. root[t] = t /\ \A s \in TradeIds : root[s] = t => s = t
  BY DEF DealsHold, RootsAreAgreed
<1> QED BY <1>1, <1>2 DEF Family

LEMMA InitShares == ASSUME ConstantsAssumption, Init PROVE SharesHold
<1>1. PartsShareTerms /\ RowsCount /\ OpenRowsAreWhole /\ EarlyEndsAreBroken
  BY DEF Init, PartsShareTerms, RowsCount, OpenRowsAreWhole, EarlyEndsAreBroken, Withdrawn
<1>2. ASSUME NEW t \in TradeIds
      PROVE  /\ Sum(quantity, Family(t)) = agreed[t]
             /\ \A role \in Roles :
                  moved[t][role] <= Sum(quantity, {s \in Family(t) : role \in settled[s]})
             /\ \A s \in Family(t) : quantity[s] > 0
  <2>1. Family(t) = {} /\ agreed[t] = 0 /\ \A role \in Roles : moved[t][role] = 0
    BY DEF Init, Family
  <2>2. \A role \in Roles : {s \in Family(t) : role \in settled[s]} = {}
    BY <2>1
  <2> QED BY <2>1, <2>2, SumOfNone
<1> QED BY <1>1, <1>2 DEF SharesHold, SplitsConserveQuantity

(* Steps that only end trades.                                             *)
LEMMA RetreatingKeepsShares ==
  ASSUME IInv, DealsHold, SharesHold, Retreats
  PROVE  SharesHold' /\ \A a \in TradeIds : Family(a)' = Family(a)
<1>1. /\ UNCHANGED <<settled, quantity, root, agreed, moved>>
      /\ \A t \in TradeIds :
           /\ \/ status'[t] = status[t]
              \/ /\ status[t] \in {"pending", "reserved"}
                 /\ status'[t] \in {"declined", "cancelled", "expired"}
           /\ terms'[t] = terms[t] => status'[t] = status[t] \/ settled[t] = {}
           /\ status'[t] \in {"pending", "reserved"} \/ RequireLive(t)'
                => terms'[t] = terms[t]
      /\ \A s, t \in TradeIds : terms[s] = terms[t] => terms'[s] = terms'[t]
  BY DEF Retreats, TermsFade
<1>2. \A a \in TradeIds : Family(a)' = Family(a)
  <2>1. \A t \in TradeIds : status'[t] # "none" <=> status[t] # "none"
    BY <1>1
  <2> QED BY <1>1, <2>1 DEF Family
<1>3. \A t \in TradeIds : root[t] \in TradeIds
  BY DEF IInv, TypeOK
<1>4. PartsShareTerms' /\ RowsCount'
  BY <1>1, <1>3 DEF SharesHold, PartsShareTerms, RowsCount
<1>5. OpenRowsAreWhole'
  <2>1. ASSUME NEW t \in TradeIds, status'[t] \in {"pending", "reserved"}
        PROVE  RequireLive(t)'
    <3>1. status[t] = status'[t] /\ terms'[t] = terms[t]
      BY <1>1, <2>1
    <3> QED BY <2>1, <3>1 DEF SharesHold, OpenRowsAreWhole, RequireLive
  <2> QED BY <2>1 DEF OpenRowsAreWhole
<1>6. EarlyEndsAreBroken'
  <2>1. ASSUME NEW t \in TradeIds, status'[t] \in Withdrawn
        PROVE  settled'[t] # Roles /\ (settled'[t] # {} => ~RequireLive(t)')
    <3>1. settled'[t] = settled[t] /\ (RequireLive(t)' => RequireLive(t))
      BY <1>1 DEF RequireLive
    <3>2. CASE status'[t] = status[t]
      BY <2>1, <3>1, <3>2 DEF SharesHold, EarlyEndsAreBroken
    <3>3. CASE status'[t] # status[t]
      <4>1. status[t] \in {"pending", "reserved"} /\ (RequireLive(t)' => settled[t] = {})
        BY <1>1, <3>3
      <4>2. settled[t] # Roles
        BY <4>1 DEF IInv, CompletedWhenBothSettled, Roles
      <4> QED BY <3>1, <4>1, <4>2
    <3> QED BY <3>2, <3>3
  <2> QED BY <2>1 DEF EarlyEndsAreBroken
<1>7. SplitsConserveQuantity'
  BY <1>1, <1>2 DEF SharesHold, SplitsConserveQuantity
<1> QED BY <1>2, <1>4, <1>5, <1>6, <1>7 DEF SharesHold

(* What the other four kinds of steps do to the rows.                      *)
Alone(t) ==
  \A u \in TradeIds : u # t =>
    /\ status'[u] = status[u] /\ terms'[u] = terms[u]
    /\ quantity'[u] = quantity[u] /\ agreed'[u] = agreed[u]

Opened(t, n) ==
  /\ status[t] = "none" /\ status'[t] = "pending" /\ RequireLive(t)'
  /\ n > 0 /\ quantity'[t] = n /\ agreed'[t] = n
  /\ Alone(t) /\ UNCHANGED <<settled, root, moved>>

Resized(t, n) ==
  /\ status[t] = "pending" /\ n > 0 /\ quantity'[t] = n /\ agreed'[t] = n
  /\ Alone(t) /\ UNCHANGED <<status, terms, settled, root, moved>>

OthersSwept(t) ==
  \A u \in TradeIds : u # t =>
    status'[u] = status[u] \/ (status[u] = "pending" /\ status'[u] = "cancelled")

Accepted(t) ==
  /\ status[t] = "pending" /\ status'[t] = "reserved" /\ OthersSwept(t)
  /\ UNCHANGED <<terms, quantity, settled, root, agreed, moved>>

(* Row s is the settled part of row t, or t itself.                        *)
Parted(t, role, s, n) ==
  /\ status[t] = "reserved" /\ role \notin settled[t]
  /\ n \in Nat /\ n > 0 /\ n <= quantity[t]
  /\ s # t => status[s] = "none" /\ n # quantity[t] /\ quantity'[t] = quantity[t] - n
  /\ s = t => n = quantity[t]
  /\ status'[s] \in {"reserved", "completed"} /\ OthersSwept(s)
  /\ terms'[s] = terms[t] /\ quantity'[s] = n /\ root'[s] = root[t]
  /\ settled'[s] = settled[t] \cup {role}
  /\ \A u \in TradeIds : u # s =>
       /\ terms'[u] = terms[u] /\ root'[u] = root[u] /\ settled'[u] = settled[u]
       /\ u # t => quantity'[u] = quantity[u]
  /\ agreed' = agreed
  /\ \A u \in TradeIds, r \in Roles :
       /\ moved'[u][r] <= moved[u][r] + n
       /\ u # root[t] \/ r # role => moved'[u][r] = moved[u][r]

LEMMA CreatingOpens ==
  ASSUME ConstantsAssumption, IInv, Creates
  PROVE  \E t \in TradeIds, n \in Nat : Opened(t, n)
<1>1. PICK g \in Groups, giver \in Users, receiver \in Users, initiator \in Roles,
           n \in Quantities, names \in SUBSET Copies :
         CreateTrade(g, giver, receiver, initiator, n, names)
  BY DEF Creates
<1>0. PICK t : t = NextId
  OBVIOUS
<1> DEFINE deal == [group |-> g, giver |-> giver, receiver |-> receiver,
                    initiator |-> initiator]
<1>2. t \in TradeIds /\ status[t] = "none" /\ n \in Nat /\ n > 0
  BY <1>0, <1>1, NextRowIsFree DEF CreateTrade, ConstantsAssumption, Quantities
<1>3. /\ status' = [status EXCEPT ![t] = "pending"] /\ terms' = [terms EXCEPT ![t] = deal]
      /\ quantity' = [quantity EXCEPT ![t] = n] /\ agreed' = [agreed EXCEPT ![t] = n]
      /\ UNCHANGED <<settled, root, moved>>
  BY <1>0, <1>1 DEF CreateTrade
<1>4. Gone \notin {deal.group, deal.giver, deal.receiver}
  BY DEF ConstantsAssumption
<1> HIDE DEF deal
<1>5. /\ status'[t] = "pending" /\ terms'[t] = deal /\ quantity'[t] = n /\ agreed'[t] = n
      /\ \A u \in TradeIds : u # t => /\ status'[u] = status[u] /\ terms'[u] = terms[u]
                                      /\ quantity'[u] = quantity[u]
                                      /\ agreed'[u] = agreed[u]
  BY <1>2, <1>3 DEF IInv, TypeOK
<1>6. RequireLive(t)'
  BY <1>4, <1>5 DEF RequireLive
<1>7. Opened(t, n)
  BY <1>2, <1>3, <1>5, <1>6 DEF Opened, Alone
<1> QED BY <1>2, <1>7

LEMMA ResizingResizes ==
  ASSUME ConstantsAssumption, IInv, Resizes
  PROVE  \E t \in TradeIds, n \in Nat : Resized(t, n)
<1>1. PICK t \in TradeIds, n \in Quantities : SetTradeQuantity(t, n)
  BY DEF Resizes
<1>2. n \in Nat /\ n > 0
  BY DEF ConstantsAssumption, Quantities
<1>3. /\ status[t] = "pending"
      /\ quantity' = [quantity EXCEPT ![t] = n] /\ agreed' = [agreed EXCEPT ![t] = n]
      /\ UNCHANGED <<status, terms, settled, root, moved>>
  BY <1>1 DEF SetTradeQuantity
<1>4. Resized(t, n)
  BY <1>2, <1>3 DEF IInv, TypeOK, Resized, Alone
<1> QED BY <1>2, <1>4

LEMMA AcceptingAccepts ==
  ASSUME IInv, Accepts
  PROVE  \E t \in TradeIds : Accepted(t)
<1>1. PICK t \in TradeIds, P \in SUBSET Copies : AcceptTrade(t, P)
  BY DEF Accepts
<1> DEFINE st == [status EXCEPT ![t] = "reserved"]
<1>2. /\ status[t] = "pending" /\ status' = SweptStatus(terms[t].giver, st)
      /\ UNCHANGED <<terms, quantity, settled, root, agreed, moved>>
  BY <1>1 DEF AcceptTrade, history
<1>3. /\ st \in [TradeIds -> Statuses]
      /\ \A u \in TradeIds : st[u] = IF u = t THEN "reserved" ELSE status[u]
  BY DEF IInv, TypeOK, Statuses
<1> HIDE DEF st
<1>4. \A u \in TradeIds :
        status'[u] = st[u] \/ (st[u] = "pending" /\ status'[u] = "cancelled")
  BY <1>2, <1>3, SweptStatusClosesPending
<1>5. Accepted(t)
  BY <1>2, <1>3, <1>4 DEF Accepted, OthersSwept
<1> QED BY <1>5

LEMMA SettlingParts ==
  ASSUME ConstantsAssumption, IInv, NEW t \in TradeIds, NEW role \in Roles,
         NEW n \in Quantities, Settles(t, role, n)
  PROVE  \E s \in TradeIds : Parted(t, role, s, n)
<1> DEFINE s == SettleTarget(t, n)
<1>1. PICK r \in Answers, kind \in {"apply", "skip"} :
        ClaimSettleTarget(t, role, n, kind, r)
  BY DEF Settles
<1>2. /\ s \in TradeIds /\ status[t] = "reserved" /\ role \notin settled[t]
      /\ s # t => status[s] = "none"
      /\ n \in Nat
  BY <1>1, ClaimedTarget
<1>3. /\ terms' = [terms EXCEPT ![s] = terms[t]]
      /\ quantity' = [quantity EXCEPT ![t] = @ - n, ![s] = n]
      /\ settled' = [settled EXCEPT ![s] = settled[t] \cup {role}]
      /\ root' = [root EXCEPT ![s] = root[t]] /\ agreed' = agreed
      /\ n \in 1..quantity[t]
  BY <1>1 DEF ClaimSettleTarget, QuantityAfter, SidesAfter, MaySettle
<1>4. s = t <=> n = quantity[t]
  <2>1. ASSUME n # quantity[t], NextId = t PROVE FALSE
    <3>1. quantity[t] \in Nat /\ created < MaxTrades
      BY <1>1, <1>3, <2>1 DEF IInv, TypeOK, ClaimSettleTarget, MaySettle
    <3>2. status[NextId] = "none"
      BY <3>1, NextRowIsFree
    <3> QED BY <1>2, <2>1, <3>2
  <2> QED BY <2>1 DEF SettleTarget
<1>5. Divides(t, role, s, n)
  BY DEF Settles
<1> HIDE DEF s
<1>6. /\ terms'[s] = terms[t] /\ quantity'[s] = n /\ root'[s] = root[t]
      /\ settled'[s] = settled[t] \cup {role}
      /\ s # t => quantity'[t] = quantity[t] - n
      /\ \A u \in TradeIds : u # s => /\ terms'[u] = terms[u] /\ root'[u] = root[u]
                                      /\ settled'[u] = settled[u]
                                      /\ u # t => quantity'[u] = quantity[u]
  <2>1. /\ terms \in [TradeIds -> Terms] /\ quantity \in [TradeIds -> Nat]
        /\ settled \in [TradeIds -> SUBSET Roles] /\ root \in [TradeIds -> TradeIds]
    BY DEF IInv, TypeOK
  <2> QED BY <1>2, <1>3, <2>1
<1>7. quantity[t] \in Nat /\ n > 0 /\ n <= quantity[t]
  BY <1>2, <1>3 DEF IInv, TypeOK
<1>8. Parted(t, role, s, n)
  BY <1>2, <1>3, <1>4, <1>5, <1>6, <1>7 DEF Divides, Parted, OthersSwept
<1> QED BY <1>2, <1>8

(* The rows and the quantities of one agreement.                           *)
Conserved(a) ==
  /\ Sum(quantity, Family(a)) = agreed[a]
  /\ \A role \in Roles :
       moved[a][role] <= Sum(quantity, SettledBy(role, settled, Family(a)))
  /\ \A s \in Family(a) : quantity[s] > 0

LEMMA ConservedQuantities ==
  SplitsConserveQuantity <=> \A a \in TradeIds : Conserved(a)
BY DEF SplitsConserveQuantity, Conserved, SettledBy

LEMMA UntouchedFamily ==
  ASSUME NEW a \in TradeIds, Conserved(a), Family(a)' = Family(a),
         \A s \in Family(a) : quantity'[s] = quantity[s] /\ settled'[s] = settled[s],
         agreed'[a] = agreed[a], \A role \in Roles : moved'[a][role] = moved[a][role]
  PROVE  Conserved(a)'
<1>1. Sum(quantity', Family(a)) = Sum(quantity, Family(a))
  BY SumReadsItsRows
<1>2. ASSUME NEW role \in Roles
      PROVE  /\ SettledBy(role, settled, Family(a))' = SettledBy(role, settled, Family(a))
             /\ Sum(quantity', SettledBy(role, settled, Family(a))) =
                  Sum(quantity, SettledBy(role, settled, Family(a)))
  <2>1. SettledBy(role, settled', Family(a)) = SettledBy(role, settled, Family(a))
    BY DEF SettledBy
  <2>2. \A s \in SettledBy(role, settled, Family(a)) : quantity'[s] = quantity[s]
    BY DEF SettledBy
  <2> QED BY <2>1, <2>2, SumReadsItsRows
<1>3. (Sum(quantity, Family(a)) = agreed[a])'
  BY <1>1 DEF Conserved
<1>4. (\A role \in Roles :
         moved[a][role] <= Sum(quantity, SettledBy(role, settled, Family(a))))'
  BY <1>2 DEF Conserved
<1>5. (\A s \in Family(a) : quantity[s] > 0)'
  BY DEF Conserved
<1> QED BY <1>3, <1>4, <1>5 DEF Conserved

LEMMA OpeningKeepsShares ==
  ASSUME ConstantsAssumption, IInv, IInv', DealsHold, SharesHold,
         NEW t \in TradeIds, NEW n \in Nat, Opened(t, n)
  PROVE  /\ SharesHold' /\ Family(t)' = {t}
         /\ \A a \in TradeIds \ {t} : Family(a)' = Family(a) /\ t \notin Family(a)
<1>1. root[t] = t /\ \A u \in TradeIds : root[u] = t => u = t
  BY DEF Opened, DealsHold, RootsAreAgreed
<1>2. Family(t)' = {t}
  BY <1>1 DEF Opened, Family
<1>3. \A a \in TradeIds \ {t} : Family(a)' = Family(a) /\ t \notin Family(a)
  BY <1>1 DEF Opened, Alone, Family
<1>4. \A u \in TradeIds : root[u] \in TradeIds
  BY DEF IInv, TypeOK
<1>5. PartsShareTerms'
  BY <1>1, <1>4 DEF SharesHold, PartsShareTerms, Opened, Alone
<1>6. RowsCount'
  BY DEF SharesHold, RowsCount, Opened, Alone
<1>7. OpenRowsAreWhole' /\ EarlyEndsAreBroken'
  <2>1. ASSUME NEW u \in TradeIds, u # t
        PROVE  /\ status'[u] \in {"pending", "reserved"} => RequireLive(u)'
               /\ status'[u] \in Withdrawn =>
                    settled'[u] # Roles /\ (settled'[u] # {} => ~RequireLive(u)')
    BY <2>1 DEF SharesHold, OpenRowsAreWhole, EarlyEndsAreBroken, Opened, Alone, RequireLive
  <2>2. RequireLive(t)' /\ status'[t] \notin Withdrawn
    BY DEF Opened, Withdrawn
  <2> QED BY <2>1, <2>2 DEF OpenRowsAreWhole, EarlyEndsAreBroken
<1>8. ASSUME NEW a \in TradeIds PROVE Conserved(a)'
  <2>0. Conserved(a)
    BY ConservedQuantities DEF SharesHold
  <2>1. CASE a = t
    <3>1. quantity' \in [TradeIds -> Nat] /\ moved \in [TradeIds -> [Roles -> Nat]]
      BY DEF IInv, TypeOK
    <3>2. Sum(quantity', {t}) = quantity'[t]
      BY <3>1, SumOfOne
    <3>3. ASSUME NEW role \in Roles
          PROVE  moved'[t][role] <= Sum(quantity', SettledBy(role, settled', {t}))
      <4>1. Family(t) = {}
        BY LoneRows DEF Opened
      <4>2. SettledBy(role, settled, Family(t)) = {}
        BY <4>1 DEF SettledBy
      <4>3. moved[t][role] <= 0
        <5>1. moved[t][role] <= Sum(quantity, SettledBy(role, settled, Family(t)))
          BY <2>0, <2>1 DEF Conserved
        <5> QED BY <4>2, <5>1, SumOfNone
      <4>4. SettledBy(role, settled', {t}) \in SUBSET TradeIds
        BY DEF SettledBy
      <4>5. Sum(quantity', SettledBy(role, settled', {t})) \in Nat
        BY <3>1, <4>4, SumIsNatural
      <4>6. moved'[t][role] = moved[t][role] /\ moved[t][role] \in Nat
        BY <3>1 DEF Opened
      <4> QED BY <4>3, <4>5, <4>6
    <3>4. (Sum(quantity, Family(a)) = agreed[a])'
      BY <1>2, <2>1, <3>2 DEF Opened
    <3>5. (\A role \in Roles :
             moved[a][role] <= Sum(quantity, SettledBy(role, settled, Family(a))))'
      BY <1>2, <2>1, <3>3
    <3>6. (\A s \in Family(a) : quantity[s] > 0)'
      BY <1>2, <2>1 DEF Opened
    <3> QED BY <3>4, <3>5, <3>6 DEF Conserved
  <2>2. CASE a # t
    <3>1. /\ Family(a)' = Family(a) /\ agreed'[a] = agreed[a]
          /\ \A s \in Family(a) : quantity'[s] = quantity[s] /\ settled'[s] = settled[s]
          /\ \A role \in Roles : moved'[a][role] = moved[a][role]
      BY <1>3, <2>2 DEF Opened, Alone, Family
    <3> QED BY <2>0, <3>1, UntouchedFamily
  <2> QED BY <2>1, <2>2
<1>9. SplitsConserveQuantity'
  <2>1. (\A a \in TradeIds : Conserved(a))'
    BY <1>8
  <2> QED BY <2>1 DEF SplitsConserveQuantity, Conserved, SettledBy
<1> QED BY <1>2, <1>3, <1>5, <1>6, <1>7, <1>9 DEF SharesHold

LEMMA ResizingKeepsShares ==
  ASSUME ConstantsAssumption, IInv, IInv', DealsHold, SharesHold,
         NEW t \in TradeIds, NEW n \in Nat, Resized(t, n)
  PROVE  /\ SharesHold' /\ Family(t) = {t}
         /\ \A a \in TradeIds : Family(a)' = Family(a)
         /\ \A a \in TradeIds \ {t} : t \notin Family(a)
<1>1. root[t] = t /\ Family(t) = {t} /\ settled[t] = {}
  BY LoneRows DEF Resized
<1>2. \A a \in TradeIds : Family(a)' = Family(a)
  BY DEF Resized, Family
<1>3. \A a \in TradeIds \ {t} : t \notin Family(a)
  BY <1>1 DEF Family
<1>4. PartsShareTerms'
  BY DEF SharesHold, PartsShareTerms, Resized
<1>5. RowsCount'
  BY DEF SharesHold, RowsCount, Resized, Alone
<1>6. OpenRowsAreWhole' /\ EarlyEndsAreBroken'
  BY DEF SharesHold, OpenRowsAreWhole, EarlyEndsAreBroken, Resized, RequireLive
<1>7. ASSUME NEW a \in TradeIds PROVE Conserved(a)'
  <2>0. Conserved(a)
    BY ConservedQuantities DEF SharesHold
  <2>1. CASE a = t
    <3>1. quantity' \in [TradeIds -> Nat]
      BY DEF IInv, TypeOK
    <3>2. Sum(quantity', {t}) = quantity'[t]
      BY <3>1, SumOfOne
    <3>3. (Sum(quantity, Family(a)) = agreed[a])'
      BY <1>1, <1>2, <2>1, <3>2 DEF Resized
    <3>4. ASSUME NEW role \in Roles
          PROVE  /\ SettledBy(role, settled, Family(t)) = {}
                 /\ SettledBy(role, settled, Family(t))' = {}
                 /\ moved'[t][role] = moved[t][role]
      <4>1. settled'[t] = {} /\ Family(t)' = {t} /\ moved' = moved
        BY <1>1, <1>2 DEF Resized
      <4> QED BY <1>1, <4>1 DEF SettledBy
    <3>5. (\A role \in Roles :
             moved[a][role] <= Sum(quantity, SettledBy(role, settled, Family(a))))'
      <4>1. ASSUME NEW role \in Roles PROVE moved'[t][role] <= Sum(quantity', {})
        BY <2>0, <2>1, <3>4, SumOfNone DEF Conserved
      <4> QED BY <2>1, <3>4, <4>1
    <3>6. (\A s \in Family(a) : quantity[s] > 0)'
      BY <1>1, <1>2, <2>1 DEF Resized
    <3> QED BY <3>3, <3>5, <3>6 DEF Conserved
  <2>2. CASE a # t
    <3>1. /\ Family(a)' = Family(a) /\ agreed'[a] = agreed[a]
          /\ \A s \in Family(a) : quantity'[s] = quantity[s] /\ settled'[s] = settled[s]
          /\ \A role \in Roles : moved'[a][role] = moved[a][role]
      BY <1>2, <1>3, <2>2 DEF Resized, Alone, Family
    <3> QED BY <2>0, <3>1, UntouchedFamily
  <2> QED BY <2>1, <2>2
<1>8. SplitsConserveQuantity'
  <2>1. (\A a \in TradeIds : Conserved(a))'
    BY <1>7
  <2> QED BY <2>1 DEF SplitsConserveQuantity, Conserved, SettledBy
<1> QED BY <1>1, <1>2, <1>3, <1>4, <1>5, <1>6, <1>8 DEF SharesHold

LEMMA AcceptingKeepsShares ==
  ASSUME IInv, DealsHold, SharesHold, NEW t \in TradeIds, Accepted(t)
  PROVE  SharesHold' /\ \A a \in TradeIds : Family(a)' = Family(a)
<1>1. \A u \in TradeIds :
        /\ status'[u] # "none" <=> status[u] # "none"
        /\ status'[u] \in {"pending", "reserved"} => status[u] \in {"pending", "reserved"}
        /\ status'[u] \in Withdrawn => status[u] = "pending" \/ status'[u] = status[u]
  BY DEF Accepted, OthersSwept, Withdrawn
<1>2. \A a \in TradeIds : Family(a)' = Family(a)
  BY <1>1 DEF Accepted, Family
<1>3. PartsShareTerms' /\ RowsCount'
  BY <1>1 DEF SharesHold, PartsShareTerms, RowsCount, Accepted
<1>4. OpenRowsAreWhole'
  BY <1>1 DEF SharesHold, OpenRowsAreWhole, Accepted, RequireLive
<1>5. EarlyEndsAreBroken'
  <2>1. ASSUME NEW u \in TradeIds, status'[u] \in Withdrawn
        PROVE  settled'[u] # Roles /\ (settled'[u] # {} => ~RequireLive(u)')
    <3>1. settled'[u] = settled[u] /\ terms'[u] = terms[u]
      BY DEF Accepted
    <3>2. status[u] = "pending" \/ status[u] \in Withdrawn
      BY <1>1, <2>1
    <3>3. status[u] = "pending" => settled[u] = {}
      BY LoneRows
    <3>4. RequireLive(u)' <=> RequireLive(u)
      BY <3>1 DEF RequireLive
    <3>5. status[u] \in Withdrawn => settled[u] # Roles /\ (settled[u] # {} => ~RequireLive(u))
      BY DEF SharesHold, EarlyEndsAreBroken
    <3>6. settled[u] # Roles /\ (settled[u] # {} => ~RequireLive(u))
      <4>1. {} # Roles
        BY DEF Roles
      <4> QED BY <3>2, <3>3, <3>5, <4>1, Zenon
    <3> QED BY <3>1, <3>4, <3>6
  <2> QED BY <2>1 DEF EarlyEndsAreBroken
<1>6. SplitsConserveQuantity'
  BY <1>2 DEF SharesHold, SplitsConserveQuantity, Accepted
<1> QED BY <1>2, <1>3, <1>4, <1>5, <1>6 DEF SharesHold

(* A row that is split off is new, and joins the rows of its trade.        *)
RowsParted(a, t, s) ==
  /\ a \in TradeIds /\ t \in Family(a) /\ Family(a)' = Family(a) \cup {s}
  /\ \A b \in TradeIds \ {a} :
       Family(b)' = Family(b) /\ s \notin Family(b) /\ t \notin Family(b)
  /\ s # t => /\ s \notin Family(a) /\ s # a
              /\ \A u \in TradeIds : root[u] = s => u = s

LEMMA PartingFamilies ==
  ASSUME IInv, DealsHold, SharesHold, NEW t \in TradeIds, NEW role \in Roles,
         NEW s \in TradeIds, NEW n, Parted(t, role, s, n)
  PROVE  \A a : a = root[t] => RowsParted(a, t, s)
<1> SUFFICES ASSUME NEW a, a = root[t] PROVE RowsParted(a, t, s)
  OBVIOUS
<1>1. a \in TradeIds
  BY DEF IInv, TypeOK
<1>2. s # t => /\ root[s] = s /\ s # a
               /\ \A u \in TradeIds : root[u] = s => u = s
  BY DEF Parted, DealsHold, RootsAreAgreed
<1>3. status[t] # "none" /\ status'[s] # "none" /\ root'[s] = a
  BY DEF Parted
<1>4. \A u \in TradeIds : u # s =>
        root'[u] = root[u] /\ (status'[u] # "none" <=> status[u] # "none")
  BY DEF Parted, OthersSwept
<1>5. s # t => status[s] = "none"
  BY DEF Parted
<1>6. Family(a)' = Family(a) \cup {s}
  BY <1>1, <1>3, <1>4, <1>5 DEF Family
<1>7. ASSUME NEW b \in TradeIds \ {a}
      PROVE  Family(b)' = Family(b) /\ s \notin Family(b) /\ t \notin Family(b)
  BY <1>3, <1>4, <1>5 DEF Family
<1> QED BY <1>1, <1>2, <1>3, <1>5, <1>6, <1>7 DEF RowsParted, Family

(* What a settlement does to the sums over rows P of the trade.            *)
PartsIn(t, role, s, n, P, Q) ==
  /\ Parted(t, role, s, n) /\ t \in TradeIds /\ role \in Roles /\ s \in TradeIds
  /\ P \in SUBSET TradeIds /\ t \in P /\ (s # t => s \notin P) /\ Q = P \cup {s}

LEMMA PartingSums ==
  ASSUME ConstantsAssumption, IInv, IInv', NEW t, NEW role, NEW s, NEW n, NEW P, NEW Q,
         PartsIn(t, role, s, n, P, Q)
  PROVE  /\ Sum(quantity', Q) = Sum(quantity, P)
         /\ Sum(quantity', SettledBy(role, settled', Q)) =
              Sum(quantity, SettledBy(role, settled, P)) + n
         /\ \A x \in Roles \ {role} :
              Sum(quantity', SettledBy(x, settled', Q)) =
                Sum(quantity, SettledBy(x, settled, P))
<1>1. MovesPart(quantity, quantity', settled, settled', t, role, s, n, P, Q)
  BY DEF IInv, TypeOK, Parted, PartsIn, MovesPart
<1> QED BY <1>1, SettlingSums

LEMMA PartingKeepsShares ==
  ASSUME ConstantsAssumption, IInv, IInv', DealsHold, SharesHold,
         NEW t \in TradeIds, NEW role \in Roles, NEW s \in TradeIds, NEW n,
         Parted(t, role, s, n)
  PROVE  SharesHold'
<1>0. PICK a : a = root[t] /\ RowsParted(a, t, s)
  BY PartingFamilies
<1>1. /\ a \in TradeIds /\ t \in Family(a) /\ Family(a)' = Family(a) \cup {s}
      /\ \A b \in TradeIds \ {a} :
           Family(b)' = Family(b) /\ s \notin Family(b) /\ t \notin Family(b)
      /\ s # t => /\ s \notin Family(a) /\ s # a
                  /\ \A u \in TradeIds : root[u] = s => u = s
  BY <1>0 DEF RowsParted
<1>2. PartsShareTerms'
  <2>1. \A u \in TradeIds : root[u] \in TradeIds
    BY DEF IInv, TypeOK
  <2>2. /\ root'[s] = root[t] /\ terms'[s] = terms[t]
        /\ \A u \in TradeIds : u # s => root'[u] = root[u] /\ terms'[u] = terms[u]
    BY DEF Parted
  <2>3. \A u \in TradeIds : root[root[u]] = root[u] /\ terms[root[u]] = terms[u]
    BY DEF SharesHold, PartsShareTerms
  <2>4. CASE s = t
    <3>1. \A u \in TradeIds : root'[u] = root[u] /\ terms'[u] = terms[u]
      BY <2>2, <2>4
    <3> QED BY <2>1, <2>3, <3>1 DEF PartsShareTerms
  <2>5. CASE s # t
    <3>1. ASSUME NEW u \in TradeIds
          PROVE  root'[root'[u]] = root'[u] /\ terms'[root'[u]] = terms'[u]
      <4>1. CASE u = s
        BY <1>0, <1>1, <2>2, <2>3, <2>5, <4>1
      <4>2. CASE u # s
        <5>1. root[u] # s
          BY <1>1, <2>5, <4>2
        <5> QED BY <2>1, <2>2, <2>3, <4>2, <5>1
      <4> QED BY <4>1, <4>2
    <3> QED BY <3>1 DEF PartsShareTerms
  <2> QED BY <2>4, <2>5
<1>3. RowsCount'
  <2>1. ASSUME NEW u \in TradeIds, status'[u] # "none" PROVE quantity'[u] > 0
    <3>1. CASE u = s
      BY <3>1 DEF Parted
    <3>2. CASE u = t /\ s # t
      <4>1. quantity[t] \in Nat /\ quantity'[t] = quantity[t] - n /\ quantity'[t] \in Nat
        BY <3>2 DEF Parted, IInv, TypeOK
      <4>2. n # quantity[t]
        BY <3>2 DEF Parted
      <4> QED BY <3>2, <4>1, <4>2 DEF Parted
    <3>3. CASE u \notin {s, t}
      BY <2>1, <3>3 DEF Parted, OthersSwept, SharesHold, RowsCount
    <3> QED BY <3>1, <3>2, <3>3
  <2> QED BY <2>1 DEF RowsCount
<1>4. OpenRowsAreWhole'
  <2>1. ASSUME NEW u \in TradeIds, status'[u] \in {"pending", "reserved"}
        PROVE  RequireLive(u)'
    <3>1. CASE u = s
      BY <3>1 DEF Parted, SharesHold, OpenRowsAreWhole, RequireLive
    <3>2. CASE u # s
      BY <2>1, <3>2 DEF Parted, OthersSwept, SharesHold, OpenRowsAreWhole, RequireLive
    <3> QED BY <3>1, <3>2
  <2> QED BY <2>1 DEF OpenRowsAreWhole
<1>5. EarlyEndsAreBroken'
  <2>1. ASSUME NEW u \in TradeIds, status'[u] \in Withdrawn
        PROVE  settled'[u] # Roles /\ (settled'[u] # {} => ~RequireLive(u)')
    <3>1. u # s
      BY <2>1 DEF Parted, Withdrawn
    <3>2. settled'[u] = settled[u] /\ terms'[u] = terms[u]
      BY <3>1 DEF Parted
    <3>3. status[u] = "pending" \/ status[u] \in Withdrawn
      BY <2>1, <3>1 DEF Parted, OthersSwept
    <3>4. status[u] = "pending" => settled[u] = {}
      BY LoneRows
    <3>5. RequireLive(u)' <=> RequireLive(u)
      BY <3>2 DEF RequireLive
    <3>6. status[u] \in Withdrawn =>
            settled[u] # Roles /\ (settled[u] # {} => ~RequireLive(u))
      BY DEF SharesHold, EarlyEndsAreBroken
    <3>7. settled[u] # Roles /\ (settled[u] # {} => ~RequireLive(u))
      <4>1. {} # Roles
        BY DEF Roles
      <4> QED BY <3>3, <3>4, <3>6, <4>1
    <3> QED BY <3>2, <3>5, <3>7
  <2> QED BY <2>1 DEF EarlyEndsAreBroken
<1>6. ASSUME NEW b \in TradeIds PROVE Conserved(b)'
  <2>0. Conserved(b)
    BY ConservedQuantities DEF SharesHold
  <2>1. CASE b = a
    <3>1. PICK P, Q : P = Family(a) /\ Q = Family(a)'
      OBVIOUS
    <3>2. PartsIn(t, role, s, n, P, Q)
      BY <1>1, <3>1 DEF PartsIn, Family
    <3>3. /\ Sum(quantity', Q) = Sum(quantity, P)
          /\ Sum(quantity', SettledBy(role, settled', Q)) =
               Sum(quantity, SettledBy(role, settled, P)) + n
          /\ \A x \in Roles \ {role} :
               Sum(quantity', SettledBy(x, settled', Q)) =
                 Sum(quantity, SettledBy(x, settled, P))
      BY <3>2, PartingSums
    <3>5. ASSUME NEW x \in Roles
          PROVE  moved'[a][x] <= Sum(quantity', SettledBy(x, settled', Q))
      <4> DEFINE D == SettledBy(x, settled, P)
      <4>1. D \in SUBSET TradeIds /\ quantity \in [TradeIds -> Nat]
        BY <3>1 DEF SettledBy, Family, IInv, TypeOK
      <4>2. Sum(quantity, D) \in Nat
        BY <4>1, SumIsNatural
      <4>3. moved[a][x] <= Sum(quantity, D)
        BY <2>0, <2>1, <3>1 DEF Conserved
      <4>4. moved[a][x] \in Nat /\ moved'[a][x] \in Nat /\ n \in Nat
        BY <1>1 DEF IInv, TypeOK, Parted
      <4>5. /\ moved'[a][x] <= moved[a][x] + n
            /\ x # role => moved'[a][x] = moved[a][x]
        BY <1>0, <1>1 DEF Parted
      <4> HIDE DEF D
      <4>6. /\ moved'[a][x] <= Sum(quantity, D) + n
            /\ x # role => moved'[a][x] <= Sum(quantity, D)
        BY <4>2, <4>3, <4>4, <4>5
      <4> QED BY <3>3, <4>6 DEF D
    <3>6. b = a /\ Family(b)' = Q /\ agreed'[b] = agreed[b]
      BY <1>1, <2>1, <3>1 DEF Parted
    <3>7. (Sum(quantity, Family(b)) = agreed[b])'
      BY <2>0, <2>1, <3>1, <3>3, <3>6 DEF Conserved
    <3>8. (\A x \in Roles :
             moved[b][x] <= Sum(quantity, SettledBy(x, settled, Family(b))))'
      BY <3>5, <3>6
    <3>9. (\A u \in Family(b) : quantity[u] > 0)'
      BY <1>3 DEF RowsCount, Family
    <3> QED BY <3>7, <3>8, <3>9 DEF Conserved
  <2>2. CASE b # a
    <3>1. /\ Family(b)' = Family(b) /\ agreed'[b] = agreed[b]
          /\ \A u \in Family(b) : quantity'[u] = quantity[u] /\ settled'[u] = settled[u]
          /\ \A x \in Roles : moved'[b][x] = moved[b][x]
      BY <1>0, <1>1, <2>2 DEF Parted, Family
    <3> QED BY <2>0, <3>1, UntouchedFamily
  <2> QED BY <2>1, <2>2
<1>7. SplitsConserveQuantity'
  <2>1. (\A d \in TradeIds : Conserved(d))'
    BY <1>6
  <2> QED BY <2>1 DEF SplitsConserveQuantity, Conserved, SettledBy
<1> QED BY <1>2, <1>3, <1>4, <1>5, <1>7 DEF SharesHold

LEMMA StepKeepsShares ==
  ASSUME ConstantsAssumption, IInv, IInv', DealsHold, SharesHold, [Next]_vars
  PROVE  SharesHold'
<1>1. CASE Retreats
  BY <1>1, RetreatingKeepsShares
<1>2. CASE Creates
  BY <1>2, CreatingOpens, OpeningKeepsShares
<1>3. CASE Resizes
  BY <1>3, ResizingResizes, ResizingKeepsShares
<1>4. CASE Accepts
  BY <1>4, AcceptingAccepts, AcceptingKeepsShares
<1>5. ASSUME NEW t \in TradeIds, NEW role \in Roles, NEW n \in Quantities,
             Settles(t, role, n)
      PROVE  SharesHold'
  BY <1>5, SettlingParts, PartingKeepsShares
<1> QED BY <1>1, <1>2, <1>3, <1>4, <1>5, FiveKindsOfSteps

(* The rows of a trade stay rows of one agreement, through every split and *)
(* every end: same terms, and quantities that add up.                      *)
THEOREM SharesInvariant == Spec => []SharesHold
<1> USE ConstantsAssumption
<1>1. Init => SharesHold
  BY InitShares
<1>2. IInv /\ IInv' /\ DealsHold /\ SharesHold /\ [Next]_vars => SharesHold'
  BY StepKeepsShares
<1> QED BY <1>1, <1>2, TradesInvariant, DealsInvariant, PTL DEF Spec

(* Splits neither create nor lose copies, and no side settles more copies  *)
(* than the rows it has settled stand for.                                 *)
THEOREM SplitsLoseNothing == Spec => []SplitsConserveQuantity
BY SharesInvariant, PTL DEF SharesHold

-----------------------------------------------------------------------------
(* The rows of one trade, seen as an agreement                             *)

Evened(a) == \A r \in Roles : DoneBy(a)[r] = Whole(a)

(* What the agreement behind trade a looks like, by the rows it has.       *)
Seen(a) ==
  /\ Whole(a) \in Nat
  /\ \A r \in Roles : DoneBy(a)[r] \in Nat /\ DoneBy(a)[r] <= Whole(a)
  /\ Evened(a) <=> \A u \in Portions(a) : settled[u] = Roles
  /\ Family(a) = {} =>
       PhaseOf(a) = "none" /\ Whole(a) = 0 /\ \A r \in Roles : DoneBy(a)[r] = 0
  /\ HasRow(a, "pending") =>
       /\ PhaseOf(a) = "asked" /\ Family(a) = {a} /\ status[a] = "pending"
       /\ RequireLive(a) /\ Whole(a) = quantity[a] /\ \A r \in Roles : DoneBy(a)[r] = 0
  /\ Family(a) # {} /\ ~HasRow(a, "pending") =>
       PhaseOf(a) = IF Evened(a) THEN "over"
                    ELSE IF RequireLive(a) THEN "promised" ELSE "void"

LEMMA RowsAreSeen ==
  IInv /\ DealsHold /\ SharesHold => \A a \in TradeIds : Seen(a)
<1> SUFFICES ASSUME IInv, DealsHold, SharesHold, NEW a \in TradeIds PROVE Seen(a)
  OBVIOUS
<1> USE ConstantsAssumption
<1>1. /\ quantity \in [TradeIds -> Nat] /\ settled \in [TradeIds -> SUBSET Roles]
      /\ Portions(a) \in SUBSET TradeIds /\ Portions(a) \in SUBSET Family(a)
      /\ \A u \in Portions(a) : quantity[u] > 0
  BY DEF IInv, TypeOK, Portions, Family, SharesHold, RowsCount
<1>2. \A r \in Roles : DoneBy(a)[r] = Sum(quantity, SettledBy(r, settled, Portions(a)))
  BY DEF DoneBy, SettledBy
<1>3. Whole(a) \in Nat
  BY <1>1, SumIsNatural DEF Whole
<1>4. ASSUME NEW r \in Roles PROVE DoneBy(a)[r] \in Nat
  <2>1. SettledBy(r, settled, Portions(a)) \in SUBSET TradeIds
    BY <1>1 DEF SettledBy
  <2>2. Sum(quantity, SettledBy(r, settled, Portions(a))) \in Nat
    BY <1>1, <2>1, SumIsNatural
  <2> QED BY <1>2, <2>2
<1>5. PICK P : P = Portions(a)
  OBVIOUS
<1>6. /\ \A r \in Roles : DoneBy(a)[r] <= Whole(a)
      /\ Evened(a) <=> \A u \in Portions(a) : settled[u] = Roles
  <2>1. /\ \A x \in Roles : Sum(quantity, SettledBy(x, settled, P)) <= Sum(quantity, P)
        /\ (\A x \in Roles : Sum(quantity, SettledBy(x, settled, P)) = Sum(quantity, P))
             <=> \A u \in P : settled[u] = Roles
    <3>1. P \in SUBSET TradeIds /\ \A u \in P : quantity[u] > 0
      BY <1>1, <1>5
    <3> QED BY <1>1, <3>1, EvenSums
  <2> QED BY <1>2, <1>5, <2>1 DEF Evened, Whole
<1>7. ASSUME \A u \in Portions(a) : settled[u] = {}
      PROVE  \A r \in Roles : DoneBy(a)[r] = 0
  <2>1. \A r \in Roles : SettledBy(r, settled, Portions(a)) = {}
    BY <1>7 DEF SettledBy
  <2> QED BY <1>2, <2>1, SumOfNone
<1>8. ASSUME Family(a) = {}
      PROVE  PhaseOf(a) = "none" /\ Whole(a) = 0 /\ \A r \in Roles : DoneBy(a)[r] = 0
  <2>1. Portions(a) = {}
    BY <1>8 DEF Portions
  <2>2. PhaseOf(a) = "none"
    BY <1>8 DEF PhaseOf
  <2>3. Whole(a) = 0
    BY <2>1, SumOfNone DEF Whole
  <2> QED BY <1>7, <2>1, <2>2, <2>3
<1>9. ASSUME HasRow(a, "pending")
      PROVE  /\ PhaseOf(a) = "asked" /\ Family(a) = {a} /\ status[a] = "pending"
             /\ RequireLive(a) /\ Whole(a) = quantity[a]
             /\ \A r \in Roles : DoneBy(a)[r] = 0
  <2>1. PICK t \in Family(a) : status[t] = "pending"
    BY <1>9 DEF HasRow
  <2>2. t \in TradeIds /\ root[t] = a /\ root[t] = t /\ Family(t) = {t} /\ settled[t] = {}
    BY <2>1, LoneRows DEF Family
  <2>3. t = a
    BY <2>2
  <2>4. Portions(a) = {a}
    BY <2>1, <2>2, <2>3 DEF Portions, Withdrawn
  <2>5. Whole(a) = quantity[a]
    BY <1>1, <2>4, SumOfOne DEF Whole
  <2>6. RequireLive(a)
    BY <2>1, <2>3 DEF SharesHold, OpenRowsAreWhole
  <2>7. \A r \in Roles : DoneBy(a)[r] = 0
    BY <1>7, <2>2, <2>3, <2>4
  <2>8. PhaseOf(a) = "asked"
    BY <1>9, <2>1 DEF PhaseOf
  <2> QED BY <2>1, <2>2, <2>3, <2>5, <2>6, <2>7, <2>8
<1>10. ASSUME Family(a) # {}, ~HasRow(a, "pending")
       PROVE  PhaseOf(a) = IF Evened(a) THEN "over"
                           ELSE IF RequireLive(a) THEN "promised" ELSE "void"
  <2>1. \A u \in Family(a) : /\ u \in TradeIds /\ (RequireLive(u) <=> RequireLive(a))
                             /\ status[u] \in {"reserved", "completed"} \cup Withdrawn
    <3>1. \A u \in Family(a) : /\ u \in TradeIds /\ root[u] = a /\ status[u] # "none"
                               /\ status[u] # "pending" /\ status[u] \in Statuses
      BY <1>10 DEF Family, HasRow, IInv, TypeOK
    <3>2. \A u \in Family(a) : terms[u] = terms[a]
      BY <3>1 DEF SharesHold, PartsShareTerms
    <3> QED BY <3>1, <3>2 DEF RequireLive, Statuses, Closed, Withdrawn
  <2>2. CASE HasRow(a, "reserved")
    <3>1. PICK t \in Family(a) : status[t] = "reserved"
      BY <2>2 DEF HasRow
    <3>2. t \in Portions(a) /\ settled[t] # Roles /\ RequireLive(a)
      BY <2>1, <3>1 DEF Portions, Withdrawn, IInv, CompletedWhenBothSettled, SharesHold,
                        OpenRowsAreWhole
    <3>3. ~Evened(a)
      BY <1>6, <3>2
    <3> QED BY <1>10, <2>2, <3>2, <3>3 DEF PhaseOf
  <2>3. CASE ~HasRow(a, "reserved") /\ \E t \in Portions(a) : status[t] \in Withdrawn
    <3>1. PICK t \in Portions(a) : status[t] \in Withdrawn
      BY <2>3
    <3>2. settled[t] # Roles /\ ~RequireLive(a)
      BY <1>1, <2>1, <3>1 DEF Portions, SharesHold, EarlyEndsAreBroken
    <3>3. ~Evened(a)
      BY <1>6, <3>1, <3>2
    <3> QED BY <1>10, <2>3, <3>2, <3>3 DEF PhaseOf
  <2>4. CASE ~HasRow(a, "reserved") /\ ~\E t \in Portions(a) : status[t] \in Withdrawn
    <3>1. \A u \in Portions(a) : status[u] = "completed"
      BY <1>1, <2>1, <2>4 DEF HasRow
    <3>2. \A u \in Portions(a) : settled[u] = Roles
      BY <1>1, <3>1 DEF IInv, CompletedWhenBothSettled
    <3>3. Evened(a)
      BY <1>6, <3>2
    <3> QED BY <1>10, <2>4, <3>3 DEF PhaseOf
  <2> QED BY <2>2, <2>3, <2>4
<1> QED BY <1>3, <1>4, <1>6, <1>8, <1>9, <1>10 DEF Seen

(* The steps of an agreement, in terms of the rows.                        *)
LEMMA StayingSeen ==
  ASSUME NEW a \in TradeIds, PhaseOf(a)' = PhaseOf(a), Whole(a)' = Whole(a),
         DoneBy(a)' = DoneBy(a), Intact(a)' = Intact(a)
  PROVE  Agreement!Unchanged(a)
BY DEF Agreement!Unchanged, Agreement!Keeps, Agreement!Undone, Agreement!Unbroken

LEMMA WithdrawingSeen ==
  ASSUME NEW a \in TradeIds, PhaseOf(a) = "asked", PhaseOf(a)' = "over", Whole(a)' = 0,
         DoneBy(a)' = DoneBy(a), Intact(a)' => Intact(a)
  PROVE  Agreement!Withdraw(a)
BY DEF Agreement!Withdraw, Agreement!Undone

LEMMA CallingOffSeen ==
  ASSUME NEW a \in TradeIds, PhaseOf(a) = "promised", Whole(a)' < Whole(a), Seen(a)',
         DoneBy(a)' = DoneBy(a), Intact(a)' = Intact(a),
         PhaseOf(a)' = IF Evened(a)' THEN "over" ELSE "promised"
  PROVE  Agreement!CallOff(a)
BY DEF Agreement!CallOff, Agreement!Undone, Agreement!Unbroken, Agreement!Complete,
       Evened, Seen

LEMMA BreakingSeen ==
  ASSUME NEW a \in TradeIds, Intact(a), ~Intact(a)', DoneBy(a)' = DoneBy(a), Seen(a)',
         \/ /\ PhaseOf(a) = "promised" /\ Whole(a)' <= Whole(a)
            /\ PhaseOf(a)' = IF Evened(a)' THEN "over" ELSE "void"
         \/ /\ PhaseOf(a) = "over" /\ PhaseOf(a)' = "over" /\ Whole(a)' = Whole(a)
  PROVE  Agreement!Break(a)
BY DEF Agreement!Break, Agreement!Undone, Agreement!Keeps, Agreement!Complete, Evened, Seen

LEMMA AskingSeen ==
  ASSUME NEW a \in TradeIds, PhaseOf(a) = "none", PhaseOf(a)' = "asked",
         Whole(a)' \in Nat \ {0}, DoneBy(a)' = DoneBy(a), Intact(a)'
  PROVE  Agreement!Ask(a)
BY DEF Agreement!Ask, Agreement!Undone

LEMMA ResizingSeen ==
  ASSUME NEW a \in TradeIds, PhaseOf(a) = "asked", PhaseOf(a)' = "asked", Intact(a),
         Whole(a)' \in Nat \ {0}, DoneBy(a)' = DoneBy(a), Intact(a)' = Intact(a)
  PROVE  Agreement!Resize(a)
BY DEF Agreement!Resize, Agreement!Undone, Agreement!Unbroken

LEMMA PromisingSeen ==
  ASSUME NEW a \in TradeIds, PhaseOf(a) = "asked", PhaseOf(a)' = "promised", Intact(a),
         Whole(a)' = Whole(a), DoneBy(a)' = DoneBy(a), Intact(a)' = Intact(a)
  PROVE  Agreement!Promise(a)
BY DEF Agreement!Promise, Agreement!Undone, Agreement!Unbroken

LEMMA SettlingSeen ==
  ASSUME NEW a \in TradeIds, PhaseOf(a) = "promised", Intact(a), Intact(a)' = Intact(a),
         Whole(a)' = Whole(a), NEW role \in Roles, Seen(a)',
         DoneBy(a)'[role] > DoneBy(a)[role],
         \A r \in Roles \ {role} : DoneBy(a)'[r] = DoneBy(a)[r],
         PhaseOf(a)' = IF Evened(a)' THEN "over" ELSE "promised"
  PROVE  Agreement!Settle(a)
BY DEF Agreement!Settle, Agreement!Unbroken, Agreement!Complete, Evened, Seen

(* Rows that settle nothing keep what has been settled.                    *)
LEMMA SameSettled ==
  ASSUME NEW a \in TradeIds, Portions(a)' \subseteq Portions(a),
         \A u \in Portions(a) : settled'[u] = settled[u] /\ quantity'[u] = quantity[u],
         \A u \in Portions(a) : u \in Portions(a)' \/ settled[u] = {}
  PROVE  DoneBy(a)' = DoneBy(a)
<1>1. ASSUME NEW r \in Roles
      PROVE  /\ {t \in Portions(a) : r \in settled[t]}' = {t \in Portions(a) : r \in settled[t]}
             /\ Sum(quantity', {t \in Portions(a) : r \in settled[t]}) =
                  Sum(quantity, {t \in Portions(a) : r \in settled[t]})
  <2>1. {t \in Portions(a)' : r \in settled'[t]} = {t \in Portions(a) : r \in settled[t]}
    OBVIOUS
  <2>2. \A u \in {t \in Portions(a) : r \in settled[t]} : quantity'[u] = quantity[u]
    OBVIOUS
  <2> QED BY <2>1, <2>2, SumReadsItsRows
<1> QED BY <1>1 DEF DoneBy

LEMMA UntouchedIsSeen ==
  ASSUME NEW a \in TradeIds, Family(a)' = Family(a),
         \A u \in Family(a) : /\ settled'[u] = settled[u] /\ quantity'[u] = quantity[u]
                              /\ status'[u] = status[u],
         Family(a) # {} => (RequireLive(a)' <=> RequireLive(a))
  PROVE  Agreement!Unchanged(a)
<1>1. Portions(a)' = Portions(a) /\ Portions(a) \subseteq Family(a)
  BY DEF Portions
<1>2. DoneBy(a)' = DoneBy(a)
  BY <1>1, SameSettled
<1>3. Whole(a)' = Whole(a)
  <2>1. Sum(quantity', Portions(a)) = Sum(quantity, Portions(a))
    BY <1>1, SumReadsItsRows
  <2> QED BY <1>1, <2>1 DEF Whole
<1>4. Intact(a)' = Intact(a)
  BY DEF Intact
<1>5. PhaseOf(a)' = PhaseOf(a)
  <2>1. \A st \in {"pending", "reserved"} : HasRow(a, st)' <=> HasRow(a, st)
    BY DEF HasRow
  <2>2. (\E t \in Portions(a) : status[t] \in Withdrawn)'
          <=> \E t \in Portions(a) : status[t] \in Withdrawn
    BY <1>1
  <2> QED BY <2>1, <2>2 DEF PhaseOf
<1> QED BY <1>2, <1>3, <1>4, <1>5, StayingSeen

LEMMA ClosedRequestIsSeen ==
  ASSUME IInv, NEW a \in TradeIds, Seen(a), Seen(a)', HasRow(a, "pending"),
         Family(a)' = Family(a), settled'[a] = settled[a], quantity'[a] = quantity[a],
         status'[a] \in Withdrawn
  PROVE  Agreement!Withdraw(a)
<1>1. /\ Family(a) = {a} /\ PhaseOf(a) = "asked" /\ RequireLive(a) /\ settled[a] = {}
      /\ status[a] = "pending"
  BY DEF Seen, IInv, CompletedWhenBothSettled
<1>2. Portions(a) = {a} /\ Portions(a)' = {}
  BY <1>1 DEF Portions, Withdrawn
<1>3. DoneBy(a)' = DoneBy(a)
  BY <1>1, <1>2, SameSettled
<1>4. Whole(a)' = 0
  <2>1. Sum(quantity', {}) = 0
    BY SumOfNone
  <2> QED BY <1>2, <2>1 DEF Whole
<1>5. PhaseOf(a)' = "over"
  <2>1. Family(a)' # {} /\ ~HasRow(a, "pending")' /\ Evened(a)'
    BY <1>1, <1>2 DEF HasRow, Withdrawn, Seen
  <2> QED BY <2>1 DEF Seen
<1>6. Intact(a)
  BY <1>1 DEF Intact
<1> QED BY <1>1, <1>3, <1>4, <1>5, <1>6, WithdrawingSeen

LEMMA RetreatingIsSeen ==
  ASSUME ConstantsAssumption, IInv, DealsHold, SharesHold, Retreats,
         NEW a \in TradeIds, Seen(a), Seen(a)'
  PROVE  \/ Agreement!Unchanged(a) \/ Agreement!Withdraw(a)
         \/ Agreement!CallOff(a) \/ Agreement!Break(a)
<1>1. Family(a)' = Family(a)
  BY RetreatingKeepsShares
<1>2. \A u \in Family(a) :
        /\ u \in TradeIds /\ settled'[u] = settled[u] /\ quantity'[u] = quantity[u]
        /\ \/ status'[u] = status[u]
           \/ status[u] \in {"pending", "reserved"} /\ status'[u] \in Withdrawn
  BY DEF Retreats, Family, Withdrawn
<1>3. /\ status'[a] = "pending" \/ RequireLive(a)' => terms'[a] = terms[a]
      /\ RequireLive(a)' => RequireLive(a)
  BY DEF Retreats, TermsFade, RequireLive
<1>4. CASE Family(a) = {}
  BY <1>1, <1>4, UntouchedIsSeen
<1>5. CASE HasRow(a, "pending") /\ status'[a] = "pending"
  <2>1. Family(a) = {a} /\ status[a] = "pending"
    BY <1>5 DEF Seen
  <2>2. RequireLive(a)' <=> RequireLive(a)
    BY <1>3, <1>5 DEF RequireLive
  <2> QED BY <1>1, <1>2, <1>5, <2>1, <2>2, UntouchedIsSeen
<1>6. CASE HasRow(a, "pending") /\ status'[a] # "pending"
  <2>1. Family(a) = {a} /\ status[a] = "pending"
    BY <1>6 DEF Seen
  <2> QED BY <1>1, <1>2, <1>6, <2>1, ClosedRequestIsSeen
<1>7. CASE Family(a) # {} /\ ~HasRow(a, "pending")
  <2>1. /\ Portions(a)' \subseteq Portions(a) /\ Portions(a) \subseteq Family(a)
        /\ \A u \in Portions(a) : u \in Portions(a)' \/ settled[u] = {}
    BY <1>1, <1>2 DEF Portions, Withdrawn
  <2>2. DoneBy(a)' = DoneBy(a)
    BY <1>2, <2>1, SameSettled
  <2>3. Whole(a)' <= Whole(a)
    <3>1. quantity \in [TradeIds -> Nat] /\ Portions(a) \in SUBSET TradeIds
      BY <1>2, <2>1 DEF IInv, TypeOK
    <3>2. Sum(quantity, Portions(a)') <= Sum(quantity, Portions(a))
      BY <2>1, <3>1, SumOfPart
    <3>3. quantity' = quantity
      BY DEF Retreats
    <3> QED BY <3>2, <3>3 DEF Whole
  <2>4. ~HasRow(a, "pending")'
    BY <1>1, <1>2, <1>7 DEF HasRow, Withdrawn
  <2>5. /\ PhaseOf(a) = IF Evened(a) THEN "over"
                        ELSE IF RequireLive(a) THEN "promised" ELSE "void"
        /\ PhaseOf(a)' = IF Evened(a)' THEN "over"
                         ELSE IF RequireLive(a)' THEN "promised" ELSE "void"
    BY <1>1, <1>7, <2>4 DEF Seen
  <2>6. /\ Whole(a) \in Nat /\ Whole(a)' \in Nat
        /\ \A r \in Roles : DoneBy(a)[r] <= Whole(a)'
        /\ Evened(a) => \A r \in Roles : DoneBy(a)[r] = Whole(a)
    BY <2>2 DEF Seen, Evened
  <2>7. Evened(a) => Whole(a)' = Whole(a)
    <3>1. ASSUME Evened(a) PROVE Whole(a)' = Whole(a)
      <4>1. DoneBy(a)["giver"] <= Whole(a)' /\ DoneBy(a)["giver"] = Whole(a)
        BY <2>6, <3>1 DEF Roles
      <4> QED BY <2>3, <2>6, <4>1
    <3> QED BY <3>1
  <2>8. Whole(a)' = Whole(a) => (Evened(a)' <=> Evened(a))
    BY <2>2 DEF Evened
  <2>9. (Intact(a) <=> RequireLive(a)) /\ (Intact(a)' <=> RequireLive(a)')
    BY <1>1, <1>7 DEF Intact
  <2>10. CASE RequireLive(a) /\ RequireLive(a)'
    <3>1. CASE Whole(a)' = Whole(a)
      <4>1. PhaseOf(a)' = PhaseOf(a) /\ Intact(a)' = Intact(a)
        BY <2>5, <2>8, <2>9, <2>10, <3>1 DEF Intact
      <4> QED BY <2>2, <3>1, <4>1, StayingSeen
    <3>2. CASE Whole(a)' # Whole(a)
      <4>1. PhaseOf(a) = "promised" /\ Whole(a)' < Whole(a)
        BY <2>3, <2>5, <2>6, <2>7, <2>10, <3>2
      <4>2. PhaseOf(a)' = IF Evened(a)' THEN "over" ELSE "promised"
        BY <2>5, <2>10
      <4>3. Intact(a)' = Intact(a)
        BY <2>9, <2>10 DEF Intact
      <4> QED BY <2>2, <4>1, <4>2, <4>3, CallingOffSeen
    <3> QED BY <3>1, <3>2
  <2>11. CASE RequireLive(a) /\ ~RequireLive(a)'
    <3>1. CASE Evened(a)
      <4>1. PhaseOf(a) = "over" /\ PhaseOf(a)' = "over" /\ Whole(a)' = Whole(a)
        BY <2>5, <2>7, <2>8, <3>1
      <4> QED BY <2>2, <2>9, <2>11, <4>1, BreakingSeen
    <3>2. CASE ~Evened(a)
      <4>1. /\ PhaseOf(a) = "promised"
            /\ PhaseOf(a)' = IF Evened(a)' THEN "over" ELSE "void"
        BY <2>5, <2>11, <3>2
      <4> QED BY <2>2, <2>3, <2>9, <2>11, <4>1, BreakingSeen
    <3> QED BY <3>1, <3>2
  <2>12. CASE ~RequireLive(a)
    <3>1. ASSUME NEW u \in Family(a) PROVE status[u] \notin {"pending", "reserved"}
      <4>1. u \in TradeIds /\ terms[u] = terms[a]
        BY DEF Family, SharesHold, PartsShareTerms
      <4> QED BY <2>12, <4>1 DEF SharesHold, OpenRowsAreWhole, RequireLive
    <3>2. \A u \in Family(a) : status'[u] = status[u]
      BY <1>2, <3>1
    <3> QED BY <1>1, <1>2, <1>3, <2>12, <3>2, UntouchedIsSeen
  <2> QED BY <2>10, <2>11, <2>12
<1> QED BY <1>4, <1>5, <1>6, <1>7

(* Trades that an operation on another trade may sweep.                    *)
LEMMA BesideIsSeen ==
  ASSUME IInv, NEW a \in TradeIds, Seen(a), Seen(a)', Family(a)' = Family(a),
         \A u \in Family(a) :
           /\ settled'[u] = settled[u] /\ quantity'[u] = quantity[u]
           /\ status'[u] = status[u] \/ (status[u] = "pending" /\ status'[u] = "cancelled"),
         Family(a) # {} => (RequireLive(a)' <=> RequireLive(a))
  PROVE  Agreement!Unchanged(a) \/ Agreement!Withdraw(a)
<1>1. CASE \A u \in Family(a) : status'[u] = status[u]
  BY <1>1, UntouchedIsSeen
<1>2. CASE ~\A u \in Family(a) : status'[u] = status[u]
  <2>1. PICK u \in Family(a) : status[u] = "pending" /\ status'[u] = "cancelled"
    BY <1>2
  <2>2. HasRow(a, "pending")
    BY <2>1 DEF HasRow
  <2>3. u = a
    BY <2>1, <2>2 DEF Seen
  <2>4. status'[a] \in Withdrawn /\ settled'[a] = settled[a] /\ quantity'[a] = quantity[a]
    BY <2>1, <2>3 DEF Withdrawn
  <2> QED BY <2>2, <2>4, ClosedRequestIsSeen
<1> QED BY <1>1, <1>2

LEMMA OpeningIsSeen ==
  ASSUME ConstantsAssumption, IInv, IInv', DealsHold, SharesHold,
         NEW t \in TradeIds, NEW n \in Nat, Opened(t, n),
         \A a \in TradeIds : Seen(a) /\ Seen(a)'
  PROVE  Agreement!Advance
<1>1. /\ Family(t)' = {t}
      /\ \A a \in TradeIds \ {t} : Family(a)' = Family(a) /\ t \notin Family(a)
  BY OpeningKeepsShares
<1>2. Agreement!Ask(t)
  <2>1. Family(t) = {} /\ status'[t] = "pending" /\ quantity'[t] = n /\ n > 0
    BY LoneRows DEF Opened
  <2>2. HasRow(t, "pending")'
    BY <1>1, <2>1 DEF HasRow
  <2>3. PhaseOf(t) = "none" /\ \A r \in Roles : DoneBy(t)[r] = 0
    BY <2>1 DEF Seen
  <2>4. PhaseOf(t)' = "asked" /\ Whole(t)' = n /\ \A r \in Roles : DoneBy(t)'[r] = 0
    BY <2>1, <2>2 DEF Seen
  <2>5. DoneBy(t)' = DoneBy(t)
    BY <2>3, <2>4 DEF DoneBy
  <2>6. Intact(t)'
    BY <1>1 DEF Opened, Intact
  <2> QED BY <2>1, <2>3, <2>4, <2>5, <2>6, AskingSeen
<1>3. ASSUME NEW a \in TradeIds \ {t} PROVE Agreement!Unchanged(a)
  <2>1. /\ \A u \in Family(a) : /\ settled'[u] = settled[u] /\ quantity'[u] = quantity[u]
                               /\ status'[u] = status[u]
        /\ Family(a)' = Family(a)
    BY <1>1 DEF Opened, Alone, Family
  <2>2. RequireLive(a)' <=> RequireLive(a)
    BY DEF Opened, Alone, RequireLive
  <2> QED BY <2>1, <2>2, UntouchedIsSeen
<1> QED BY <1>2, <1>3 DEF Agreement!Advance

LEMMA ResizingIsSeen ==
  ASSUME ConstantsAssumption, IInv, IInv', DealsHold, SharesHold,
         NEW t \in TradeIds, NEW n \in Nat, Resized(t, n),
         \A a \in TradeIds : Seen(a) /\ Seen(a)'
  PROVE  Agreement!Advance
<1>1. /\ Family(t) = {t} /\ \A a \in TradeIds : Family(a)' = Family(a)
      /\ \A a \in TradeIds \ {t} : t \notin Family(a)
  BY ResizingKeepsShares
<1>2. Agreement!Resize(t)
  <2>1. /\ status[t] = "pending" /\ status'[t] = "pending" /\ quantity'[t] = n /\ n > 0
        /\ Family(t)' = {t}
    BY <1>1 DEF Resized
  <2>2. HasRow(t, "pending") /\ HasRow(t, "pending")'
    BY <1>1, <2>1 DEF HasRow
  <2>3. PhaseOf(t) = "asked" /\ RequireLive(t) /\ \A r \in Roles : DoneBy(t)[r] = 0
    BY <2>2 DEF Seen
  <2>4. /\ PhaseOf(t)' = "asked" /\ RequireLive(t)' /\ Whole(t)' = n
        /\ \A r \in Roles : DoneBy(t)'[r] = 0
    BY <2>1, <2>2 DEF Seen
  <2>5. DoneBy(t)' = DoneBy(t)
    BY <2>3, <2>4 DEF DoneBy
  <2>6. Intact(t) /\ Intact(t)' = Intact(t)
    BY <1>1, <2>1, <2>3, <2>4 DEF Intact
  <2>7. Whole(t)' \in Nat \ {0}
    BY <2>1, <2>4
  <2> QED BY <2>3, <2>4, <2>5, <2>6, <2>7, ResizingSeen
<1>3. ASSUME NEW a \in TradeIds \ {t} PROVE Agreement!Unchanged(a)
  <2>1. /\ \A u \in Family(a) : /\ settled'[u] = settled[u] /\ quantity'[u] = quantity[u]
                               /\ status'[u] = status[u]
        /\ Family(a)' = Family(a)
    BY <1>1 DEF Resized, Alone, Family
  <2>2. RequireLive(a)' <=> RequireLive(a)
    BY DEF Resized, RequireLive
  <2> QED BY <2>1, <2>2, UntouchedIsSeen
<1> QED BY <1>2, <1>3 DEF Agreement!Advance

LEMMA AcceptingIsSeen ==
  ASSUME IInv, DealsHold, SharesHold, NEW t \in TradeIds, Accepted(t),
         \A a \in TradeIds : Seen(a) /\ Seen(a)'
  PROVE  Agreement!Advance
<1>1. /\ \A a \in TradeIds : Family(a)' = Family(a)
      /\ Family(t) = {t} /\ root[t] = t /\ settled[t] = {}
  BY AcceptingKeepsShares, LoneRows DEF Accepted
<1>2. Agreement!Promise(t)
  <2>1. /\ status[t] = "pending" /\ status'[t] = "reserved" /\ Family(t)' = {t}
        /\ quantity' = quantity /\ settled'[t] = {} /\ terms' = terms
    BY <1>1 DEF Accepted
  <2>2. HasRow(t, "pending") /\ ~HasRow(t, "pending")'
    BY <1>1, <2>1 DEF HasRow
  <2>3. Portions(t) = {t} /\ Portions(t)' = {t}
    BY <1>1, <2>1 DEF Portions, Withdrawn
  <2>4. PhaseOf(t) = "asked" /\ RequireLive(t) /\ RequireLive(t)'
    BY <2>1, <2>2 DEF Seen, RequireLive
  <2>5. ~Evened(t)'
    BY <2>1, <2>3 DEF Seen, Roles
  <2>6. PhaseOf(t)' = "promised"
    BY <2>1, <2>2, <2>4, <2>5 DEF Seen
  <2>7. Whole(t)' = Whole(t)
    BY <2>1, <2>3 DEF Whole
  <2>8. DoneBy(t)' = DoneBy(t)
    BY <1>1, <2>1, <2>3, SameSettled
  <2>9. Intact(t) /\ Intact(t)' = Intact(t)
    BY <1>1, <2>1, <2>4 DEF Intact
  <2> QED BY <2>4, <2>6, <2>7, <2>8, <2>9, PromisingSeen
<1>3. ASSUME NEW a \in TradeIds \ {t} PROVE Agreement!Unchanged(a) \/ Agreement!Withdraw(a)
  <2>1. /\ \A u \in Family(a) :
             /\ settled'[u] = settled[u] /\ quantity'[u] = quantity[u]
             /\ status'[u] = status[u]
                  \/ (status[u] = "pending" /\ status'[u] = "cancelled")
        /\ Family(a)' = Family(a)
    BY <1>1 DEF Accepted, OthersSwept, Family
  <2>2. RequireLive(a)' <=> RequireLive(a)
    BY DEF Accepted, RequireLive
  <2> QED BY <2>1, <2>2, BesideIsSeen
<1> QED BY <1>2, <1>3 DEF Agreement!Advance

LEMMA PartingIsSeen ==
  ASSUME ConstantsAssumption, IInv, IInv', DealsHold, SharesHold,
         NEW t \in TradeIds, NEW role \in Roles, NEW s \in TradeIds, NEW n,
         Parted(t, role, s, n), \A a \in TradeIds : Seen(a) /\ Seen(a)'
  PROVE  Agreement!Advance
<1>1. PICK a : a = root[t] /\ RowsParted(a, t, s)
  BY PartingFamilies
<1>2. /\ a \in TradeIds /\ t \in Family(a) /\ Family(a)' = Family(a) \cup {s}
      /\ \A b \in TradeIds \ {a} :
           Family(b)' = Family(b) /\ s \notin Family(b) /\ t \notin Family(b)
      /\ s # t => s \notin Family(a) /\ s # a
  BY <1>1 DEF RowsParted
<1>3. Agreement!Settle(a)
  <2>1. ~HasRow(a, "pending")
    <3>1. status[t] = "reserved"
      BY DEF Parted
    <3> QED BY <1>2, <3>1 DEF Seen
  <2>2. /\ status'[s] \in {"reserved", "completed"}
        /\ \A u \in Family(a) : u # s => status'[u] = status[u] /\ settled'[u] = settled[u]
    BY <2>1 DEF Parted, OthersSwept, HasRow, Family
  <2>3. ~HasRow(a, "pending")'
    BY <1>2, <2>1, <2>2 DEF HasRow
  <2>4. RequireLive(a) /\ RequireLive(a)'
    <3>1. terms[a] = terms[t]
      BY <1>1 DEF SharesHold, PartsShareTerms
    <3>2. RequireLive(t)
      BY DEF Parted, SharesHold, OpenRowsAreWhole
    <3>3. terms'[a] = terms[a]
      BY <1>2, <3>1 DEF Parted
    <3> QED BY <3>1, <3>2, <3>3 DEF RequireLive
  <2>5. t \in Portions(a) /\ settled[t] # Roles
    BY <1>2 DEF Parted, Portions, Withdrawn
  <2>6. PhaseOf(a) = "promised" /\ PhaseOf(a)' = IF Evened(a)' THEN "over" ELSE "promised"
    <3>1. ~Evened(a)
      BY <1>2, <2>5 DEF Seen
    <3> QED BY <1>2, <2>1, <2>3, <2>4, <3>1 DEF Seen
  <2>7. Intact(a) /\ Intact(a)' = Intact(a)
    BY <1>2, <2>4 DEF Intact
  <2>8. PICK P, Q : P = Portions(a) /\ Q = Portions(a)'
    OBVIOUS
  <2>9. Q = P \cup {s}
    BY <1>2, <2>2, <2>8 DEF Portions, Withdrawn
  <2>10. PartsIn(t, role, s, n, P, Q)
    BY <1>2, <2>5, <2>8, <2>9 DEF PartsIn, Portions, Family
  <2>11. /\ Sum(quantity', Q) = Sum(quantity, P)
         /\ Sum(quantity', SettledBy(role, settled', Q)) =
              Sum(quantity, SettledBy(role, settled, P)) + n
         /\ \A x \in Roles \ {role} :
              Sum(quantity', SettledBy(x, settled', Q)) =
                Sum(quantity, SettledBy(x, settled, P))
    BY <2>10, PartingSums
  <2>12. /\ \A x \in Roles : DoneBy(a)[x] = Sum(quantity, SettledBy(x, settled, P))
         /\ \A x \in Roles : DoneBy(a)'[x] = Sum(quantity', SettledBy(x, settled', Q))
    BY <2>8 DEF DoneBy, SettledBy
  <2>13. Whole(a)' = Whole(a)
    BY <2>8, <2>11 DEF Whole
  <2>14. DoneBy(a)'[role] > DoneBy(a)[role]
    <3>1. DoneBy(a)[role] \in Nat /\ n \in Nat /\ n > 0
      BY <1>2 DEF Seen, Parted
    <3> QED BY <2>11, <2>12, <3>1
  <2>15. \A x \in Roles \ {role} : DoneBy(a)'[x] = DoneBy(a)[x]
    BY <2>11, <2>12
  <2>16. Seen(a)'
    BY <1>2
  <2> QED BY <1>2, <2>6, <2>7, <2>13, <2>14, <2>15, <2>16, SettlingSeen
<1>4. ASSUME NEW b \in TradeIds \ {a} PROVE Agreement!Unchanged(b) \/ Agreement!Withdraw(b)
  <2>1. /\ \A u \in Family(b) :
             /\ settled'[u] = settled[u] /\ quantity'[u] = quantity[u]
             /\ status'[u] = status[u]
                  \/ (status[u] = "pending" /\ status'[u] = "cancelled")
        /\ Family(b)' = Family(b)
    BY <1>2 DEF Parted, OthersSwept, Family
  <2>2. Family(b) # {} => (RequireLive(b)' <=> RequireLive(b))
    <3>1. CASE b = s
      <4>1. terms'[s] = terms[s] \/ s # t
        BY DEF Parted
      <4>2. s # t => Family(s) = {}
        BY LoneRows DEF Parted
      <4> QED BY <3>1, <4>1, <4>2 DEF RequireLive
    <3>2. CASE b # s
      BY <3>2 DEF Parted, RequireLive
    <3> QED BY <3>1, <3>2
  <2> QED BY <2>1, <2>2, BesideIsSeen
<1> QED BY <1>2, <1>3, <1>4 DEF Agreement!Advance

LEMMA StepIsAgreed ==
  ASSUME ConstantsAssumption, IInv, IInv', DealsHold, SharesHold, [Next]_vars,
         \A a \in TradeIds : Seen(a) /\ Seen(a)'
  PROVE  Agreement!Next
<1>1. CASE Retreats
  <2>1. Agreement!End
    BY <1>1, RetreatingIsSeen DEF Agreement!End
  <2> QED BY <2>1 DEF Agreement!Next
<1>2. CASE Creates
  BY <1>2, CreatingOpens, OpeningIsSeen DEF Agreement!Next
<1>3. CASE Resizes
  BY <1>3, ResizingResizes, ResizingIsSeen DEF Agreement!Next
<1>4. CASE Accepts
  BY <1>4, AcceptingAccepts, AcceptingIsSeen DEF Agreement!Next
<1>5. ASSUME NEW t \in TradeIds, NEW role \in Roles, NEW n \in Quantities,
             Settles(t, role, n)
      PROVE  Agreement!Next
  BY <1>5, SettlingParts, PartingIsSeen DEF Agreement!Next
<1> QED BY <1>1, <1>2, <1>3, <1>4, <1>5, FiveKindsOfSteps

LEMMA InitIsAgreed == ASSUME ConstantsAssumption, Init PROVE Agreement!Init
<1>1. ASSUME NEW a \in TradeIds
      PROVE  /\ PhaseOf(a) = "none" /\ Whole(a) = 0 /\ Intact(a) = FALSE
             /\ DoneBy(a) = [r \in Roles |-> 0]
  <2>1. Family(a) = {}
    BY DEF Init, Family
  <2>2. Portions(a) = {}
    BY <2>1 DEF Portions
  <2>3. \A r \in Roles : {t \in Portions(a) : r \in settled[t]} = {}
    BY <2>2
  <2>4. DoneBy(a) = [r \in Roles |-> 0]
    BY <2>3, SumOfNone DEF DoneBy
  <2>5. Whole(a) = 0
    BY <2>2, SumOfNone DEF Whole
  <2> QED BY <2>1, <2>4, <2>5 DEF PhaseOf, Intact
<1> QED BY <1>1 DEF Agreement!Init

(* Whatever rows, splits, sweeps and departures the service makes of it, a *)
(* created trade keeps the agreement of TradeAgreement.                    *)
THEOREM TradesImplementAgreement == Spec => ImplementsAgreement
<1> USE ConstantsAssumption
<1>1. Init => Agreement!Init
  BY InitIsAgreed
<1> DEFINE AllSeen == \A a \in TradeIds : Seen(a)
<1>2. IInv /\ IInv' /\ DealsHold /\ SharesHold /\ AllSeen /\ AllSeen' /\ [Next]_vars
        => Agreement!Next
  BY StepIsAgreed
<1>3. Spec => []AllSeen
  <2>1. IInv /\ DealsHold /\ SharesHold => AllSeen
    BY RowsAreSeen
  <2> QED BY <2>1, TradesInvariant, DealsInvariant, SharesInvariant, PTL
<1> QED
  BY <1>1, <1>2, <1>3, TradesInvariant, DealsInvariant, SharesInvariant, PTL
     DEF Spec, ImplementsAgreement, Agreement!Spec

-----------------------------------------------------------------------------
(* What an agreement promises, and with it the trade services *)

(* Each step of an agreement keeps its part of the invariant.              *)
LEMMA StepStaysEven ==
  ASSUME NEW a \in TradeIds, Agreement!EvenFor(a),
         \/ Agreement!Unchanged(a) \/ Agreement!Withdraw(a)
         \/ Agreement!CallOff(a) \/ Agreement!Break(a)
         \/ Agreement!Ask(a) \/ Agreement!Resize(a)
         \/ Agreement!Promise(a) \/ Agreement!Settle(a)
  PROVE  Agreement!EvenFor(a)'
<1> USE DEF Agreement!EvenFor, Agreement!Keeps, Agreement!Undone, Agreement!Unbroken,
            Agreement!Complete
<1>1. CASE Agreement!Unchanged(a)
  BY <1>1 DEF Agreement!Unchanged
<1>2. CASE Agreement!Ask(a) \/ Agreement!Resize(a)
  BY <1>2 DEF Agreement!Ask, Agreement!Resize
<1>3. CASE Agreement!Promise(a)
  BY <1>3 DEF Agreement!Promise
<1>4. CASE Agreement!Settle(a)
  BY <1>4 DEF Agreement!Settle
<1>5. CASE Agreement!Withdraw(a)
  BY <1>5 DEF Agreement!Withdraw
<1>6. CASE Agreement!CallOff(a)
  BY <1>6 DEF Agreement!CallOff
<1>7. CASE Agreement!Break(a)
  BY <1>7 DEF Agreement!Break
<1> HIDE DEF Agreement!EvenFor, Agreement!Keeps, Agreement!Undone, Agreement!Unbroken,
             Agreement!Complete
<1> QED BY <1>1, <1>2, <1>3, <1>4, <1>5, <1>6, <1>7

(* Neither side settles more than is left of an agreement, and it is over  *)
(* only when both sides have settled that in full.                         *)
THEOREM AgreementsEndEven ==
  Agreement!Spec => [](Agreement!NeverTooMuch /\ Agreement!BothOrNeither)
<1> DEFINE Even == \A a \in TradeIds : Agreement!EvenFor(a)
<1>1. Agreement!Init => Even
  BY DEF Agreement!Init, Agreement!EvenFor
<1>2. Even /\ Agreement!Next => Even'
  <2> SUFFICES ASSUME Even, Agreement!Next, NEW a \in TradeIds
               PROVE  Agreement!EvenFor(a)'
    OBVIOUS
  <2>1. CASE Agreement!Advance
    <3>1. PICK b \in TradeIds :
            /\ \/ Agreement!Ask(b) \/ Agreement!Resize(b)
               \/ Agreement!Promise(b) \/ Agreement!Settle(b)
            /\ \A c \in TradeIds \ {b} : Agreement!Unchanged(c) \/ Agreement!Withdraw(c)
      BY <2>1 DEF Agreement!Advance
    <3>2. CASE a = b
      BY <3>1, <3>2, StepStaysEven
    <3>3. CASE a # b
      BY <3>1, <3>3, StepStaysEven
    <3> QED BY <3>2, <3>3
  <2>2. CASE Agreement!End
    BY <2>2, StepStaysEven DEF Agreement!End
  <2> QED BY <2>1, <2>2 DEF Agreement!Next
<1>3. Even /\ UNCHANGED Agreement!vars => Even'
  BY DEF Agreement!vars, Agreement!EvenFor, Agreement!Complete
<1>4. Even => Agreement!NeverTooMuch /\ Agreement!BothOrNeither
  BY DEF Agreement!NeverTooMuch, Agreement!BothOrNeither, Agreement!EvenFor
<1> HIDE DEF Even
<1> QED BY <1>1, <1>2, <1>3, <1>4, PTL DEF Agreement!Spec

(* So however the rows of a created trade are split, swept, called off or  *)
(* left behind, neither side settles more than is left of it, and it is    *)
(* over only when both sides have settled that in full.                    *)
THEOREM TradesEndEven ==
  Spec => [](Agreement!NeverTooMuch /\ Agreement!BothOrNeither)
BY TradesImplementAgreement, AgreementsEndEven DEF ImplementsAgreement
=============================================================================
