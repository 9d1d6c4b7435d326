---------------------------- MODULE SupplyClaims ----------------------------
(***************************************************************************)
(* The allocation that decides which pending trades a giver's supply of    *)
(* one printing can still fill.  It is shared by the supply check of       *)
(* createTrade and setTradeQuantity and by the sweep that closes           *)
(* unfillable pending trades (trade-offer-claims.ts, trade-supply.ts).     *)
(*                                                                         *)
(* A pending trade is a record [id, group, quantity, initiator], an older  *)
(* trade one with a smaller id.  A supply is the set of the copies that    *)
(* are free in a group; the code hands out the first of them in the order  *)
(* the supply was read.                                                    *)
(***************************************************************************)
EXTENDS Naturals, FiniteSets

CONSTANT SupplyOrder   \* per group, the place of a copy in that order

(* The first n of a group's free copies.                                   *)
FirstOf(n, free, group) ==
  CHOOSE S \in SUBSET free :
    /\ Cardinality(S) = n
    /\ \A c \in S, d \in free \ S : SupplyOrder[group][c] < SupplyOrder[group][d]

(* claimCopiesForOffers, the oldest offer first: an offer takes the first  *)
(* copies its own group still has, or is unfillable and takes none.        *)
ClaimCopiesForOffers(offers, supplyByGroup) ==
  LET claims[o \in offers] ==
        LET earlier == {p \in offers : p.id < o.id}
            free    == supplyByGroup[o.group] \ UNION {claims[p] : p \in earlier}
        IN  IF Cardinality(free) < o.quantity THEN {}
                                              ELSE FirstOf(o.quantity, free, o.group)
  IN  claims

Taken(claims)    == UNION {claims[o] : o \in DOMAIN claims}
Unfillable(claims) == {o \in DOMAIN claims : Cardinality(claims[o]) < o.quantity}

Offers(pending) == {p \in pending : p.initiator = "giver"}

(* What assertSupplyAvailable compares the wanted quantity with.           *)
AvailableCount(pending, supplyByGroup, group) ==
  LET claims == ClaimCopiesForOffers(Offers(pending), supplyByGroup)
  IN  Cardinality(supplyByGroup[group] \ Taken(claims))

(* The trades autoCancelUnfillablePendingTrades cancels: the offers that   *)
(* could claim nothing, then every request that does not fit in what the   *)
(* surviving offers left.  Requests take nothing from each other.          *)
TooLarge(pending, supplyByGroup) ==
  {r \in pending \ Offers(pending) :
     AvailableCount(pending, supplyByGroup, r.group) < r.quantity}
AutoCancelled(pending, supplyByGroup) ==
  LET claims == ClaimCopiesForOffers(Offers(pending), supplyByGroup)
  IN  {p.id : p \in Unfillable(claims) \cup TooLarge(pending, supplyByGroup)}

(* A declarative reading of "fillable", independent of the allocation      *)
(* order: the offers can be given disjoint copies of their groups, and     *)
(* each request then finds enough copies left in its own group.            *)
JointlyFillable(pending, supplyByGroup) ==
  LET offers   == Offers(pending)
      stock(p) == supplyByGroup[p.group]
      takes(p) == {S \in SUBSET stock(p) : Cardinality(S) = p.quantity}
      all      == UNION {takes(p) : p \in offers}
  IN  \E give \in [offers -> all] :
        /\ \A p \in offers : give[p] \in takes(p)
        /\ \A p, q \in offers : p # q => give[p] \cap give[q] = {}
        /\ \A r \in pending \ offers :
             Cardinality(stock(r) \ UNION {give[p] : p \in offers}) >= r.quantity
=============================================================================
