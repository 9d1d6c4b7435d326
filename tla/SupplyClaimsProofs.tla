------------------------- MODULE SupplyClaimsProofs -------------------------
(***************************************************************************)
(* What the allocation of SupplyClaims does, for every supply and every    *)
(* set of pending trades: each offer gets as many copies of its own group  *)
(* as it asks for, or nothing because too few are left; no copy goes to    *)
(* two offers; and removing trades the sweep does not close makes none of  *)
(* the others unfillable.                                                  *)
(***************************************************************************)
EXTENDS SupplyClaims, FiniteSetTheorems, NaturalsInduction, TLAPS

LEMMA LeastNumber ==
  ASSUME NEW T \in SUBSET Nat, T # {}
  PROVE  \E x \in T : \A y \in T : x <= y
<1> DEFINE less == {s \in Nat \X Nat : s[1] < s[2]}
<1>1. IsWellFoundedOn(less, Nat)
  BY NatLessThanWellFounded DEF OpToRel
<1>2. PICK x \in T : \A y \in T : <<y, x>> \notin less
  <2> HIDE DEF less
  <2> QED
    BY <1>1, WFMin
<1>3. ASSUME NEW y \in T, y < x PROVE FALSE
  <2>1. <<y, x>> \in less
    BY <1>3
  <2> QED
    BY <1>2, <2>1
<1>4. \A y \in T : y \in Nat /\ ~(y < x)
  BY <1>3
<1> QED
  BY <1>4

(* The copies of a group's supply have different places in its order.      *)
Ranked(group, S) ==
  /\ \A c \in S : SupplyOrder[group][c] \in Nat
  /\ \A c, d \in S : SupplyOrder[group][c] = SupplyOrder[group][d] => c = d

(* The supply of every group that is asked of is a finite, ordered set.    *)
Stocked(pending, supplyByGroup) ==
  \A p \in pending : /\ IsFiniteSet(supplyByGroup[p.group])
                     /\ Ranked(p.group, supplyByGroup[p.group])
(* The rows of listPendingForGiverPrinting.                                *)
AreRows(pending) ==
  /\ IsFiniteSet(pending)
  /\ \A p \in pending : p.id \in Nat /\ p.quantity \in Nat
  /\ \A p, q \in pending : p.id = q.id => p = q

Precedes(group, S, free) ==
  \A c \in S, d \in free \ S : SupplyOrder[group][c] < SupplyOrder[group][d]

-----------------------------------------------------------------------------
(* A supply has a first n copies, for every n it has.                      *)
LEMMA FirstExists ==
  ASSUME NEW group, NEW free, IsFiniteSet(free), Ranked(group, free),
         NEW n \in Nat, n <= Cardinality(free)
  PROVE  \E S \in SUBSET free : Cardinality(S) = n /\ Precedes(group, S, free)
<1> DEFINE Has(k) == \E S \in SUBSET free : Cardinality(S) = k /\ Precedes(group, S, free)
           Lacks == {k \in 0..n : ~Has(k)}
<1>c. Cardinality(free) \in Nat
  BY FS_CardinalityType
<1>0. Has(0)
  BY FS_EmptySet DEF Precedes
<1>1. SUFFICES ASSUME Lacks # {} PROVE FALSE
  <2>1. n \notin Lacks
    BY <1>1
  <2> QED BY <2>1
<1>2. PICK k \in Lacks : \A j \in Lacks : k <= j
  <2>1. Lacks \in SUBSET Nat
    OBVIOUS
  <2> HIDE DEF Lacks
  <2> QED BY <1>1, <2>1, LeastNumber
<1>3. k \in Nat /\ k <= n /\ k # 0 /\ k - 1 \in 0..n /\ k - 1 \notin Lacks
  BY <1>0, <1>2
<1>4. PICK S \in SUBSET free : Cardinality(S) = k - 1 /\ Precedes(group, S, free)
  BY <1>3
<1>5. IsFiniteSet(S) /\ IsFiniteSet(free \ S)
  BY FS_Subset
<1>6. free \ S # {}
  <2>1. S # free
    BY <1>3, <1>4, <1>c
  <2> QED BY <2>1
<1> DEFINE places == {SupplyOrder[group][c] : c \in free \ S}
<1>7. places \in SUBSET Nat /\ places # {}
  BY <1>6 DEF Ranked
<1>8. PICK d \in free \ S : \A e \in free \ S : SupplyOrder[group][d] <= SupplyOrder[group][e]
  <2>1. PICK x \in places : \A y \in places : x <= y
    <3> HIDE DEF places
    <3> QED BY <1>7, LeastNumber
  <2>2. PICK d \in free \ S : x = SupplyOrder[group][d]
    BY <2>1
  <2>3. \A e \in free \ S : SupplyOrder[group][e] \in places
    OBVIOUS
  <2> QED BY <2>1, <2>2, <2>3
<1>9. S \cup {d} \in SUBSET free /\ Cardinality(S \cup {d}) = k
  <2>1. Cardinality(S \cup {d}) = Cardinality(S) + 1
    BY <1>5, <1>8, FS_AddElement
  <2> QED BY <1>3, <1>4, <1>8, <2>1
<1>10. Precedes(group, S \cup {d}, free)
  <2> SUFFICES ASSUME NEW c \in S \cup {d}, NEW e \in free \ (S \cup {d})
               PROVE  SupplyOrder[group][c] < SupplyOrder[group][e]
    BY DEF Precedes
  <2>1. CASE c \in S
    BY <1>4, <2>1 DEF Precedes
  <2>2. CASE c = d
    <3>1. SupplyOrder[group][d] <= SupplyOrder[group][e]
      BY <1>8
    <3>2. d \in free /\ e \in free /\ d # e
      BY <1>8
    <3>3. /\ SupplyOrder[group][d] \in Nat /\ SupplyOrder[group][e] \in Nat
          /\ SupplyOrder[group][d] # SupplyOrder[group][e]
      BY <3>2 DEF Ranked
    <3> QED BY <2>2, <3>1, <3>3
  <2> QED BY <2>1, <2>2
<1> QED BY <1>2, <1>9, <1>10

LEMMA FirstAreFirst ==
  ASSUME NEW group, NEW free, IsFiniteSet(free), Ranked(group, free),
         NEW n \in Nat, n <= Cardinality(free)
  PROVE  /\ FirstOf(n, free, group) \in SUBSET free
         /\ Cardinality(FirstOf(n, free, group)) = n
         /\ Precedes(group, FirstOf(n, free, group), free)
<1> DEFINE F(S) == /\ Cardinality(S) = n
                   /\ \A c \in S, d \in free \ S :
                        SupplyOrder[group][c] < SupplyOrder[group][d]
<1>1. \E S \in SUBSET free : F(S)
  <2>1. \A S \in SUBSET free : Cardinality(S) = n /\ Precedes(group, S, free) => F(S)
    BY DEF Precedes
  <2> HIDE DEF F
  <2> QED BY <2>1, FirstExists
<1>2. FirstOf(n, free, group) = CHOOSE S \in SUBSET free : F(S)
  BY DEF FirstOf
<1>3. FirstOf(n, free, group) \in SUBSET free /\ F(FirstOf(n, free, group))
  <2> HIDE DEF F
  <2> QED BY <1>1, <1>2
<1> QED BY <1>3 DEF Precedes

-----------------------------------------------------------------------------
(* The copies that older offers have claimed, and those left to an offer.  *)
Before(claims, offers, o) == UNION {claims[p] : p \in {q \in offers : q.id < o.id}}
Left(claims, offers, supplyByGroup, o) == supplyByGroup[o.group] \ Before(claims, offers, o)
(* What an offer is given when that is left.                               *)
Given(free, o) == IF Cardinality(free) < o.quantity THEN {}
                                                    ELSE FirstOf(o.quantity, free, o.group)
AreClaims(claims, offers, supplyByGroup) ==
  claims = [o \in offers |-> Given(Left(claims, offers, supplyByGroup, o), o)]

(* Only the claims of older offers count for an offer.                     *)
LEMMA OnlyOlderCount ==
  ASSUME NEW f, NEW g, NEW offers, NEW o,
         \A p \in offers : p.id < o.id => f[p] = g[p]
  PROVE  Before(f, offers, o) = Before(g, offers, o)
BY DEF Before

(* A finite set of rows has a number above all its ids.                    *)
LEMMA IdsAreBounded ==
  ASSUME NEW offers, IsFiniteSet(offers), \A o \in offers : o.id \in Nat
  PROVE  \E n \in Nat : \A o \in offers : o.id < n
<1> DEFINE Bounded(T) == \E n \in Nat : \A o \in T : o.id < n
           sizes == {Cardinality(T) : T \in {T \in SUBSET offers : ~Bounded(T)}}
<1>1. SUFFICES ASSUME ~Bounded(offers) PROVE FALSE
  OBVIOUS
<1>2. \A T \in SUBSET offers : IsFiniteSet(T) /\ Cardinality(T) \in Nat
  BY FS_Subset, FS_CardinalityType
<1>3. sizes \in SUBSET Nat /\ sizes # {}
  BY <1>1, <1>2
<1>4. PICK m \in sizes : \A k \in sizes : m <= k
  <2> HIDE DEF sizes
  <2> QED BY <1>3, LeastNumber
<1>5. PICK T \in SUBSET offers : ~Bounded(T) /\ m = Cardinality(T)
  BY <1>4
<1>6. PICK o \in T : TRUE
  BY <1>5
<1>7. /\ T \ {o} \in SUBSET offers
      /\ Cardinality(T \ {o}) = Cardinality(T) - 1
      /\ Cardinality(T) \in Nat
  BY <1>2, <1>5, <1>6, FS_RemoveElement
<1>8. Bounded(T \ {o})
  <2>1. ~Bounded(T \ {o}) => Cardinality(T \ {o}) \in sizes
    BY <1>7
  <2>2. ~(Cardinality(T) <= Cardinality(T) - 1)
    BY <1>7
  <2> HIDE DEF Bounded, sizes
  <2> QED BY <1>4, <1>5, <1>7, <2>1, <2>2
<1>9. PICK n \in Nat : \A p \in T \ {o} : p.id < n
  BY <1>8
<1>10. \A p \in T : p.id < n + o.id + 1
  BY <1>5, <1>6, <1>9
<1>11. n + o.id + 1 \in Nat
  BY <1>5, <1>6
<1> QED BY <1>5, <1>10, <1>11

LEMMA ClaimsExist ==
  ASSUME NEW offers, NEW supplyByGroup, AreRows(offers)
  PROVE  \E claims : AreClaims(claims, offers, supplyByGroup)
<1> DEFINE Given2(g, o) == Given(Left(g, offers, supplyByGroup, o), o)
           Upto(n) == \E g : DOMAIN g = offers /\ g = [o \in offers |-> g[o]] /\
                        \A o \in offers : o.id < n => g[o] = Given2(g, o)
           Lacks == {n \in Nat : ~Upto(n)}
<1>1. Upto(0)
  <2>1. \A o \in offers : ~(o.id < 0)
    BY DEF AreRows
  <2>2. [o \in offers |-> {}] = [o \in offers |-> [p \in offers |-> {}][o]]
    OBVIOUS
  <2> QED BY <2>1, <2>2
<1>2. ASSUME NEW n \in Nat, Upto(n) PROVE Upto(n + 1)
  <2>1. PICK g : /\ DOMAIN g = offers
                 /\ \A o \in offers : o.id < n => g[o] = Given2(g, o)
    BY <1>2
  <2> DEFINE h == [o \in offers |-> IF o.id = n THEN Given2(g, o) ELSE g[o]]
  <2>2. ASSUME NEW o \in offers, o.id < n + 1 PROVE h[o] = Given2(h, o)
    <3>1. o.id \in Nat /\ \A p \in offers : p.id \in Nat
      BY DEF AreRows
    <3>2. \A p \in offers : p.id < o.id => h[p] = g[p]
      BY <2>2, <3>1
    <3> HIDE DEF h
    <3>3. Before(h, offers, o) = Before(g, offers, o)
      BY <3>2, OnlyOlderCount
    <3>4. Given2(h, o) = Given2(g, o)
      BY <3>3 DEF Left
    <3>5. h[o] = IF o.id = n THEN Given2(g, o) ELSE g[o]
      BY DEF h
    <3>6. o.id = n \/ o.id < n
      BY <2>2, <3>1
    <3> HIDE DEF Given2
    <3> QED BY <2>1, <3>4, <3>5, <3>6
  <2>3. DOMAIN h = offers /\ h = [o \in offers |-> h[o]]
    OBVIOUS
  <2> HIDE DEF h, Given2
  <2> QED BY <2>2, <2>3
<1>3. Lacks = {}
  <2> SUFFICES ASSUME Lacks # {} PROVE FALSE
    OBVIOUS
  <2>1. PICK n \in Lacks : \A m \in Lacks : n <= m
    <3>1. Lacks \in SUBSET Nat
      OBVIOUS
    <3> HIDE DEF Lacks
    <3> QED BY <3>1, LeastNumber
  <2> HIDE DEF Upto
  <2>2. n \in Nat /\ n # 0 /\ n - 1 \in Nat /\ n - 1 \notin Lacks /\ (n - 1) + 1 = n
    BY <1>1, <2>1
  <2>3. Upto((n - 1) + 1)
    BY <1>2, <2>2
  <2> QED BY <2>1, <2>2, <2>3
<1>4. PICK n \in Nat : \A o \in offers : o.id < n
  BY IdsAreBounded DEF AreRows
<1>5. PICK g : /\ g = [o \in offers |-> g[o]]
               /\ \A o \in offers : o.id < n => g[o] = Given2(g, o)
  BY <1>3
<1>6. \A o \in offers : g[o] = Given2(g, o)
  BY <1>4, <1>5
<1>7. g = [o \in offers |-> Given2(g, o)]
  <2> HIDE DEF Given2
  <2> QED BY <1>5, <1>6
<1> QED BY <1>7 DEF AreClaims

(* The recursive definition of the claims has the value it asks for.       *)
LEMMA ClaimsAreClaims ==
  ASSUME NEW offers, NEW supplyByGroup, AreRows(offers)
  PROVE  AreClaims(ClaimCopiesForOffers(offers, supplyByGroup), offers, supplyByGroup)
<1> DEFINE P(g) == g = [o \in offers |->
                         LET earlier == {p \in offers : p.id < o.id}
                             free == supplyByGroup[o.group] \ UNION {g[p] : p \in earlier}
                         IN  IF Cardinality(free) < o.quantity
                               THEN {}
                               ELSE FirstOf(o.quantity, free, o.group)]
<1>1. ClaimCopiesForOffers(offers, supplyByGroup) = CHOOSE g : P(g)
  BY DEF ClaimCopiesForOffers
<1>2. \A g : P(g) <=> AreClaims(g, offers, supplyByGroup)
  BY DEF AreClaims, Given, Left, Before
<1> HIDE DEF P
<1>3. \E g : P(g)
  BY <1>2, ClaimsExist
<1> QED BY <1>1, <1>2, <1>3

-----------------------------------------------------------------------------
(* An offer is given what it asks for, out of what is left to it, or       *)
(* nothing because less is left.                                           *)
LEMMA ClaimIsGiven ==
  ASSUME NEW offers, NEW supplyByGroup, AreRows(offers), Stocked(offers, supplyByGroup),
         NEW claims, AreClaims(claims, offers, supplyByGroup), NEW o \in offers
  PROVE  LET left == Left(claims, offers, supplyByGroup, o)
         IN  /\ left \in SUBSET supplyByGroup[o.group] /\ claims[o] \in SUBSET left
             /\ IsFiniteSet(left) /\ IsFiniteSet(claims[o])
             /\ IF Cardinality(left) < o.quantity
                  THEN claims[o] = {}
                  ELSE /\ Cardinality(claims[o]) = o.quantity
                       /\ Precedes(o.group, claims[o], left)
<1> DEFINE left == Left(claims, offers, supplyByGroup, o)
<1>1. left \in SUBSET supplyByGroup[o.group]
  BY DEF Left
<1>2. IsFiniteSet(left) /\ Cardinality(left) \in Nat /\ o.quantity \in Nat
  BY <1>1, FS_Subset, FS_CardinalityType DEF Stocked, AreRows
<1>3. Ranked(o.group, left)
  BY <1>1 DEF Stocked, Ranked
<1>4. claims[o] = Given(left, o)
  BY DEF AreClaims
<1> HIDE DEF left
<1>5. CASE Cardinality(left) < o.quantity
  BY <1>1, <1>2, <1>4, <1>5, FS_EmptySet DEF Given, left
<1>6. CASE ~(Cardinality(left) < o.quantity)
  <2>1. o.quantity <= Cardinality(left)
    BY <1>2, <1>6
  <2>2. claims[o] = FirstOf(o.quantity, left, o.group)
    BY <1>4, <1>6 DEF Given
  <2>3. /\ claims[o] \in SUBSET left /\ Cardinality(claims[o]) = o.quantity
        /\ Precedes(o.group, claims[o], left)
    BY <1>2, <1>3, <2>1, <2>2, FirstAreFirst
  <2>4. IsFiniteSet(claims[o])
    BY <1>2, <2>3, FS_Subset
  <2> QED BY <1>1, <1>2, <1>6, <2>3, <2>4 DEF left
<1> QED BY <1>5, <1>6

(* An offer is unfillable exactly if less than its quantity is left to it. *)
LEMMA UnfillableIffTooFew ==
  ASSUME NEW offers, NEW supplyByGroup, AreRows(offers), Stocked(offers, supplyByGroup),
         NEW claims, AreClaims(claims, offers, supplyByGroup), NEW o \in offers
  PROVE  o \in Unfillable(claims) <=>
           Cardinality(Left(claims, offers, supplyByGroup, o)) < o.quantity
<1> DEFINE left == Left(claims, offers, supplyByGroup, o)
<1>1. /\ IF Cardinality(left) < o.quantity THEN claims[o] = {}
                                           ELSE Cardinality(claims[o]) = o.quantity
      /\ IsFiniteSet(left)
  BY ClaimIsGiven
<1>2. Cardinality(left) \in Nat /\ o.quantity \in Nat
  BY <1>1, FS_CardinalityType DEF AreRows
<1>3. Cardinality({}) = 0
  BY FS_EmptySet
<1>4. o \in Unfillable(claims) <=> Cardinality(claims[o]) < o.quantity
  BY DEF Unfillable, AreClaims
<1> HIDE DEF left
<1> QED BY <1>1, <1>2, <1>3, <1>4 DEF left

(* No copy is claimed for two offers.                                      *)
LEMMA ClaimsAreApart ==
  ASSUME NEW offers, NEW supplyByGroup, AreRows(offers), Stocked(offers, supplyByGroup),
         NEW claims, AreClaims(claims, offers, supplyByGroup),
         NEW o \in offers, NEW p \in offers, o # p
  PROVE  claims[o] \cap claims[p] = {}
<1>1. \A q, r \in offers : q.id < r.id => claims[q] \cap claims[r] = {}
  <2> SUFFICES ASSUME NEW q \in offers, NEW r \in offers, q.id < r.id
               PROVE  claims[q] \cap claims[r] = {}
    OBVIOUS
  <2>1. claims[r] \subseteq Left(claims, offers, supplyByGroup, r)
    BY ClaimIsGiven
  <2>2. claims[q] \subseteq Before(claims, offers, r)
    BY DEF Before
  <2> QED BY <2>1, <2>2 DEF Left
<1>2. o.id < p.id \/ p.id < o.id
  BY DEF AreRows
<1> QED BY <1>1, <1>2

(* If fewer offers compete, all of which could be filled, each of them     *)
(* finds its copies among those that it and the older ones had.            *)
LEMMA ClaimsShrink ==
  ASSUME NEW offers, NEW supplyByGroup, AreRows(offers), Stocked(offers, supplyByGroup),
         NEW claims, AreClaims(claims, offers, supplyByGroup),
         NEW fewer \in SUBSET offers, fewer \cap Unfillable(claims) = {},
         NEW again, AreClaims(again, fewer, supplyByGroup)
  PROVE  \A o \in fewer : /\ again[o] \subseteq claims[o] \cup Before(claims, offers, o)
                          /\ o \notin Unfillable(again)
<1>1. AreRows(fewer) /\ Stocked(fewer, supplyByGroup)
  BY FS_Subset DEF AreRows, Stocked
<1> DEFINE Ok(o) == again[o] \subseteq claims[o] \cup Before(claims, offers, o)
<1>2. ASSUME NEW o \in fewer, \A p \in fewer : p.id < o.id => Ok(p)
      PROVE  Ok(o) /\ o \notin Unfillable(again)
  <2> DEFINE left == Left(claims, offers, supplyByGroup, o)
             more == Left(again, fewer, supplyByGroup, o)
  <2>1. Before(again, fewer, o) \subseteq Before(claims, offers, o)
    <3> SUFFICES ASSUME NEW p \in fewer, p.id < o.id
                 PROVE  again[p] \subseteq Before(claims, offers, o)
      BY DEF Before
    <3>1. claims[p] \subseteq Before(claims, offers, o)
      BY DEF Before
    <3>2. Before(claims, offers, p) \subseteq Before(claims, offers, o)
      <4>1. \A q \in offers : q.id < p.id => q.id < o.id
        BY DEF AreRows
      <4> QED BY <4>1 DEF Before
    <3> QED BY <1>2, <3>1, <3>2
  <2>2. left \subseteq more
    BY <2>1 DEF Left
  <2>3. /\ IsFiniteSet(left) /\ IsFiniteSet(more) /\ claims[o] \subseteq left
        /\ again[o] \subseteq more /\ IsFiniteSet(again[o])
    BY <1>1, ClaimIsGiven
  <2>4. /\ o.quantity \in Nat
        /\ Cardinality(left) \in Nat /\ Cardinality(more) \in Nat
        /\ Cardinality(left) <= Cardinality(more)
    BY <2>2, <2>3, FS_CardinalityType, FS_Subset DEF AreRows
  <2>5. ~(Cardinality(left) < o.quantity)
    BY UnfillableIffTooFew
  <2>6. ~(Cardinality(more) < o.quantity)
    <3> HIDE DEF left, more
    <3> QED BY <2>4, <2>5
  <2>7. o \notin Unfillable(again)
    BY <1>1, <2>6, UnfillableIffTooFew
  <2>8. Cardinality(claims[o]) = o.quantity /\ Precedes(o.group, claims[o], left)
    BY <2>5, ClaimIsGiven
  <2>9. Cardinality(again[o]) = o.quantity /\ Precedes(o.group, again[o], more)
    BY <1>1, <2>6, ClaimIsGiven
  <2>10. ASSUME NEW x \in again[o], x \notin claims[o] \cup Before(claims, offers, o)
         PROVE  FALSE
    <3>1. x \in left
      BY <2>3, <2>10 DEF Left
    <3>2. \A y \in claims[o] : SupplyOrder[o.group][y] < SupplyOrder[o.group][x]
      BY <2>8, <2>10, <3>1 DEF Precedes
    <3>3. claims[o] \subseteq again[o]
      <4> SUFFICES ASSUME NEW y \in claims[o], y \notin again[o] PROVE FALSE
        OBVIOUS
      <4>1. y \in more \ again[o]
        BY <2>2, <2>3
      <4>2. SupplyOrder[o.group][x] < SupplyOrder[o.group][y]
        BY <2>9, <4>1 DEF Precedes
      <4>3. SupplyOrder[o.group][x] \in Nat /\ SupplyOrder[o.group][y] \in Nat
        BY <2>3, <3>1 DEF Stocked, Ranked, Left
      <4> QED BY <3>2, <4>2, <4>3
    <3>4. claims[o] = again[o]
      BY <2>3, <2>8, <2>9, <3>3, FS_Subset
    <3> QED BY <2>10, <3>4
  <2> QED BY <2>7, <2>10
<1> DEFINE bad == {o.id : o \in {p \in fewer : ~Ok(p)}}
<1>3. bad = {}
  <2> SUFFICES ASSUME bad # {} PROVE FALSE
    OBVIOUS
  <2>1. PICK n \in bad : \A m \in bad : n <= m
    <3>1. bad \in SUBSET Nat
      BY DEF AreRows
    <3> HIDE DEF bad
    <3> QED BY <3>1, LeastNumber
  <2>2. PICK o \in fewer : n = o.id /\ ~Ok(o)
    BY <2>1
  <2>3. ASSUME NEW p \in fewer, p.id < o.id PROVE Ok(p)
    <3>1. p.id \in Nat /\ o.id \in Nat
      BY DEF AreRows
    <3>2. ~Ok(p) => p.id \in bad
      OBVIOUS
    <3> HIDE DEF bad, Ok
    <3> QED BY <2>1, <2>2, <2>3, <3>1, <3>2
  <2> QED BY <1>2, <2>2, <2>3
<1>4. \A o \in fewer : Ok(o)
  BY <1>3
<1> QED BY <1>2, <1>4

(* Offers that are younger than all others leave the others their claims.  *)
LEMMA YoungerOffersWait ==
  ASSUME NEW more, NEW supplyByGroup, AreRows(more), NEW offers \in SUBSET more,
         \A o \in offers, p \in more : p.id < o.id => p \in offers,
         NEW claims, AreClaims(claims, offers, supplyByGroup),
         NEW again, AreClaims(again, more, supplyByGroup)
  PROVE  \A o \in offers : again[o] = claims[o]
<1>1. ASSUME NEW o \in offers, \A p \in offers : p.id < o.id => again[p] = claims[p]
      PROVE  again[o] = claims[o]
  <2>1. Before(again, more, o) = Before(claims, offers, o)
    <3>1. {q \in more : q.id < o.id} = {q \in offers : q.id < o.id}
      OBVIOUS
    <3> QED BY <1>1, <3>1 DEF Before
  <2>2. Left(again, more, supplyByGroup, o) = Left(claims, offers, supplyByGroup, o)
    BY <2>1 DEF Left
  <2>3. again[o] = Given(Left(again, more, supplyByGroup, o), o)
    BY DEF AreClaims
  <2>4. claims[o] = Given(Left(claims, offers, supplyByGroup, o), o)
    BY DEF AreClaims
  <2> QED BY <2>2, <2>3, <2>4
<1> DEFINE bad == {o.id : o \in {p \in offers : again[p] # claims[p]}}
<1>2. bad = {}
  <2> SUFFICES ASSUME bad # {} PROVE FALSE
    OBVIOUS
  <2>1. PICK n \in bad : \A m \in bad : n <= m
    <3>1. bad \in SUBSET Nat
      BY DEF AreRows
    <3> HIDE DEF bad
    <3> QED BY <3>1, LeastNumber
  <2>2. PICK o \in offers : n = o.id /\ again[o] # claims[o]
    BY <2>1
  <2>3. ASSUME NEW p \in offers, p.id < o.id PROVE again[p] = claims[p]
    <3>1. p.id \in Nat /\ o.id \in Nat
      BY DEF AreRows
    <3>2. again[p] # claims[p] => p.id \in bad
      OBVIOUS
    <3> HIDE DEF bad
    <3> QED BY <2>1, <2>2, <2>3, <3>1, <3>2
  <2> QED BY <1>1, <2>2, <2>3
<1> QED BY <1>2

-----------------------------------------------------------------------------
(* The claims of the offers among the pending trades.                      *)
LEMMA OffersAreRows ==
  ASSUME NEW pending, NEW supplyByGroup, AreRows(pending), Stocked(pending, supplyByGroup)
  PROVE  /\ Offers(pending) \in SUBSET pending
         /\ AreRows(Offers(pending)) /\ Stocked(Offers(pending), supplyByGroup)
         /\ AreClaims(ClaimCopiesForOffers(Offers(pending), supplyByGroup),
                      Offers(pending), supplyByGroup)
<1>1. Offers(pending) \in SUBSET pending
  BY DEF Offers
<1>2. AreRows(Offers(pending)) /\ Stocked(Offers(pending), supplyByGroup)
  BY <1>1, FS_Subset DEF AreRows, Stocked
<1> QED BY <1>1, <1>2, ClaimsAreClaims

(* What assertSupplyAvailable finds available is a number.                 *)
LEMMA AvailableIsNumber ==
  ASSUME NEW pending, NEW supplyByGroup, NEW group, IsFiniteSet(supplyByGroup[group])
  PROVE  AvailableCount(pending, supplyByGroup, group) \in Nat
BY FS_Subset, FS_CardinalityType DEF AvailableCount

(* Less is taken from the supply when fewer offers, all of them fillable,  *)
(* compete for it.                                                         *)
LEMMA FewerTakeLess ==
  ASSUME NEW offers, NEW supplyByGroup, AreRows(offers), Stocked(offers, supplyByGroup),
         NEW claims, AreClaims(claims, offers, supplyByGroup),
         NEW fewer \in SUBSET offers, fewer \cap Unfillable(claims) = {},
         NEW again, AreClaims(again, fewer, supplyByGroup)
  PROVE  Taken(again) \subseteq Taken(claims) /\ Unfillable(again) = {}
<1>1. \A o \in fewer : /\ again[o] \subseteq claims[o] \cup Before(claims, offers, o)
                       /\ o \notin Unfillable(again)
  BY ClaimsShrink
<1>2. DOMAIN again = fewer /\ DOMAIN claims = offers
  BY DEF AreClaims
<1>3. \A o \in fewer : claims[o] \cup Before(claims, offers, o) \subseteq Taken(claims)
  BY <1>2 DEF Taken, Before
<1>4. Unfillable(again) \subseteq fewer
  BY <1>2 DEF Unfillable
<1> QED BY <1>1, <1>2, <1>3, <1>4 DEF Taken

(* autoCancelUnfillablePendingTrades closes all it has to at once: of the  *)
(* trades it leaves, none has become unfillable, whichever of them leave   *)
(* "pending" afterwards.                                                   *)
THEOREM SurvivorsAreFillable ==
  ASSUME NEW pending, NEW supplyByGroup, AreRows(pending), Stocked(pending, supplyByGroup),
         NEW rest \in SUBSET pending,
         \A p \in rest : p.id \notin AutoCancelled(pending, supplyByGroup)
  PROVE  AutoCancelled(rest, supplyByGroup) = {}
<1> DEFINE offers == Offers(pending)
           fewer  == Offers(rest)
           claims == ClaimCopiesForOffers(offers, supplyByGroup)
           again  == ClaimCopiesForOffers(fewer, supplyByGroup)
<1>0. AreRows(rest) /\ Stocked(rest, supplyByGroup)
  BY FS_Subset DEF AreRows, Stocked
<1>1. /\ offers \in SUBSET pending /\ AreRows(offers) /\ Stocked(offers, supplyByGroup)
      /\ AreClaims(claims, offers, supplyByGroup)
  BY OffersAreRows
<1>2. AreClaims(again, fewer, supplyByGroup)
  BY <1>0, OffersAreRows
<1>3. fewer \in SUBSET offers
  BY DEF Offers
<1>4. \A p \in pending : p \in Unfillable(claims) => p.id \in AutoCancelled(pending, supplyByGroup)
  BY DEF AutoCancelled
<1>5. \A p \in TooLarge(pending, supplyByGroup) : p.id \in AutoCancelled(pending, supplyByGroup)
  BY DEF AutoCancelled
<1>6. fewer \cap Unfillable(claims) = {}
  BY <1>3, <1>4 DEF Offers
<1> HIDE DEF offers, fewer, claims, again
<1>7. Taken(again) \subseteq Taken(claims) /\ Unfillable(again) = {}
  BY <1>1, <1>2, <1>3, <1>6, FewerTakeLess
<1>8. TooLarge(rest, supplyByGroup) = {}
  <2> SUFFICES ASSUME NEW r \in rest, r \notin fewer,
                      AvailableCount(rest, supplyByGroup, r.group) < r.quantity
               PROVE  FALSE
    BY DEF TooLarge, fewer
  <2>1. r \in pending \ offers
    BY DEF offers, fewer, Offers
  <2>2. ~(AvailableCount(pending, supplyByGroup, r.group) < r.quantity)
    BY <1>5, <2>1 DEF TooLarge, offers
  <2>3. AvailableCount(pending, supplyByGroup, r.group) =
          Cardinality(supplyByGroup[r.group] \ Taken(claims))
    BY DEF AvailableCount, claims, offers
  <2>4. AvailableCount(rest, supplyByGroup, r.group) =
          Cardinality(supplyByGroup[r.group] \ Taken(again))
    BY DEF AvailableCount, again, fewer
  <2> DEFINE S == supplyByGroup[r.group] \ Taken(claims)
             T == supplyByGroup[r.group] \ Taken(again)
  <2>5. S \subseteq T /\ IsFiniteSet(S) /\ IsFiniteSet(T)
    BY <1>7, FS_Subset DEF Stocked
  <2>6. r.quantity \in Nat
    BY DEF AreRows
  <2>7. /\ Cardinality(S) \in Nat /\ Cardinality(T) \in Nat
        /\ Cardinality(S) <= Cardinality(T)
    <3> HIDE DEF S, T
    <3> QED BY <2>5, FS_CardinalityType, FS_Subset
  <2> HIDE DEF S, T
  <2>8. Cardinality(T) < r.quantity /\ ~(Cardinality(S) < r.quantity)
    BY <2>2, <2>3, <2>4 DEF S, T
  <2> QED BY <2>6, <2>7, <2>8
<1>9. AutoCancelled(rest, supplyByGroup) =
        {p.id : p \in Unfillable(again) \cup TooLarge(rest, supplyByGroup)}
  BY DEF AutoCancelled, again, fewer
<1> QED BY <1>7, <1>8, <1>9

(* If the sweep finds nothing to close, the pending trades can be honoured *)
(* together.                                                               *)
THEOREM FillableTogether ==
  ASSUME NEW pending, NEW supplyByGroup, AreRows(pending), Stocked(pending, supplyByGroup),
         AutoCancelled(pending, supplyByGroup) = {}
  PROVE  JointlyFillable(pending, supplyByGroup)
<1> DEFINE offers   == Offers(pending)
           stock(p) == supplyByGroup[p.group]
           takes(p) == {S \in SUBSET stock(p) : Cardinality(S) = p.quantity}
           all      == UNION {takes(p) : p \in offers}
           claims   == ClaimCopiesForOffers(offers, supplyByGroup)
<1>1. /\ offers \in SUBSET pending /\ AreRows(offers) /\ Stocked(offers, supplyByGroup)
      /\ AreClaims(claims, offers, supplyByGroup)
  BY OffersAreRows
<1>2. AutoCancelled(pending, supplyByGroup) =
        {p.id : p \in Unfillable(claims) \cup TooLarge(pending, supplyByGroup)}
  BY DEF AutoCancelled
<1>3. Unfillable(claims) = {} /\ TooLarge(pending, supplyByGroup) = {}
  BY <1>2
<1>4. \A r \in pending \ offers :
        Cardinality(supplyByGroup[r.group] \ Taken(claims)) >= r.quantity
  <2> SUFFICES ASSUME NEW r \in pending \ offers
               PROVE  Cardinality(supplyByGroup[r.group] \ Taken(claims)) >= r.quantity
    OBVIOUS
  <2>1. ~(AvailableCount(pending, supplyByGroup, r.group) < r.quantity)
    BY <1>3 DEF TooLarge
  <2>2. AvailableCount(pending, supplyByGroup, r.group) =
          Cardinality(supplyByGroup[r.group] \ Taken(claims))
    BY DEF AvailableCount
  <2>3. AvailableCount(pending, supplyByGroup, r.group) \in Nat /\ r.quantity \in Nat
    BY AvailableIsNumber DEF Stocked, AreRows
  <2> QED BY <2>1, <2>2, <2>3
<1>5. \A o \in offers : claims[o] \in takes(o)
  <2> SUFFICES ASSUME NEW o \in offers PROVE claims[o] \in takes(o)
    OBVIOUS
  <2> HIDE DEF offers, claims
  <2>1. ~(Cardinality(Left(claims, offers, supplyByGroup, o)) < o.quantity)
    BY <1>1, <1>3, UnfillableIffTooFew
  <2>2. Cardinality(claims[o]) = o.quantity /\ claims[o] \subseteq supplyByGroup[o.group]
    BY <1>1, <2>1, ClaimIsGiven
  <2> QED BY <2>2
<1>6. \A p, q \in offers : p # q => claims[p] \cap claims[q] = {}
  <2> HIDE DEF offers, claims
  <2> QED BY <1>1, ClaimsAreApart
<1>7. claims \in [offers -> all] /\ Taken(claims) = UNION {claims[p] : p \in offers}
  <2>1. claims = [o \in offers |-> claims[o]] /\ DOMAIN claims = offers
    <3> HIDE DEF offers, claims
    <3> QED BY <1>1 DEF AreClaims
  <2>2. \A o \in offers : claims[o] \in all
    BY <1>5
  <2> HIDE DEF offers, claims, all
  <2> QED BY <2>1, <2>2 DEF Taken
<1> HIDE DEF claims
<1> QED BY <1>4, <1>5, <1>6, <1>7 DEF JointlyFillable

-----------------------------------------------------------------------------
(* Counting: while every offer is filled, the copies claimed are as many   *)
(* as the offers ask for, whatever their order.                            *)

LEMMA UnitsOfOne ==
  ASSUME NEW x, NEW n \in Nat
  PROVE  IsFiniteSet({x} \X (1..n)) /\ Cardinality({x} \X (1..n)) = n
<1>1. IsFiniteSet(1..n) /\ Cardinality(1..n) = n
  BY FS_Interval
<1>2. IsFiniteSet({x}) /\ Cardinality({x}) = 1
  BY FS_Singleton
<1>3. /\ IsFiniteSet({x} \X (1..n))
      /\ Cardinality({x} \X (1..n)) = Cardinality({x}) * Cardinality(1..n)
  BY <1>1, <1>2, FS_Product
<1> QED BY <1>1, <1>2, <1>3

(* What the offers in T ask for, copy by copy.                             *)
Asked(T) == UNION {{o} \X (1..o.quantity) : o \in T}

LEMMA FilledCount ==
  ASSUME NEW T, IsFiniteSet(T), \A o \in T : o.quantity \in Nat, NEW claims,
         \A o \in T : IsFiniteSet(claims[o]) /\ Cardinality(claims[o]) = o.quantity,
         \A o, p \in T : o # p => claims[o] \cap claims[p] = {}
  PROVE  /\ IsFiniteSet(Asked(T)) /\ IsFiniteSet(UNION {claims[o] : o \in T})
         /\ Cardinality(UNION {claims[o] : o \in T}) = Cardinality(Asked(T))
<1> DEFINE All(S)  == UNION {claims[o] : o \in S}
           Good(S) == /\ IsFiniteSet(Asked(S)) /\ IsFiniteSet(All(S))
                      /\ Cardinality(All(S)) = Cardinality(Asked(S))
           sizes == {Cardinality(S) : S \in {R \in SUBSET T : ~Good(R)}}
<1>1. SUFFICES ASSUME ~Good(T) PROVE FALSE
  OBVIOUS
<1>2. \A S \in SUBSET T : IsFiniteSet(S) /\ Cardinality(S) \in Nat
  BY FS_Subset, FS_CardinalityType
<1>3. PICK m \in sizes : \A k \in sizes : m <= k
  <2>1. sizes \in SUBSET Nat /\ sizes # {}
    <3> HIDE DEF Good
    <3> QED BY <1>1, <1>2
  <2> HIDE DEF sizes
  <2> QED BY <2>1, LeastNumber
<1>4. PICK S \in SUBSET T : ~Good(S) /\ m = Cardinality(S)
  BY <1>3
<1>5. Good({})
  <2>1. Asked({}) = {} /\ All({}) = {}
    BY DEF Asked
  <2> HIDE DEF All
  <2> QED BY <2>1, FS_EmptySet
<1>6. PICK o \in S : TRUE
  <2> HIDE DEF Good
  <2> QED BY <1>4, <1>5
<1> DEFINE R == S \ {o}
<1>7. Good(R)
  <2>1. /\ R \in SUBSET T /\ Cardinality(R) = Cardinality(S) - 1
        /\ Cardinality(S) \in Nat
    BY <1>2, <1>4, <1>6, FS_RemoveElement
  <2>2. ~Good(R) => Cardinality(R) \in sizes
    BY <2>1
  <2>3. ~(Cardinality(S) <= Cardinality(S) - 1)
    BY <2>1
  <2> HIDE DEF Good, sizes, R
  <2> QED BY <1>3, <1>4, <2>1, <2>2, <2>3
<1>8. All(S) = All(R) \cup claims[o] /\ All(R) \cap claims[o] = {}
  <2>1. All(R) \cap claims[o] = {}
    BY <1>4, <1>6
  <2>2. S = R \cup {o}
    BY <1>6
  <2> QED BY <2>1, <2>2
<1>9. /\ Asked(S) = Asked(R) \cup ({o} \X (1..o.quantity))
      /\ Asked(R) \cap ({o} \X (1..o.quantity)) = {}
  <2>1. S = R \cup {o}
    BY <1>6
  <2>2. \A x \in Asked(R) : x[1] \in R
    BY DEF Asked
  <2>3. \A x \in {o} \X (1..o.quantity) : x[1] \notin R
    OBVIOUS
  <2>4. Asked(S) = Asked(R) \cup ({o} \X (1..o.quantity))
    <3> HIDE DEF R
    <3> QED BY <2>1 DEF Asked
  <2> QED BY <2>2, <2>3, <2>4
<1>10. /\ IsFiniteSet(claims[o]) /\ Cardinality(claims[o]) = o.quantity
       /\ IsFiniteSet({o} \X (1..o.quantity))
       /\ Cardinality({o} \X (1..o.quantity)) = o.quantity
  BY <1>4, <1>6, UnitsOfOne
<1> DEFINE more == {o} \X (1..o.quantity)
<1>11. IsFiniteSet(All(R)) /\ IsFiniteSet(Asked(R)) /\ Cardinality(All(R)) = Cardinality(Asked(R))
  BY <1>7
<1> HIDE DEF All, R, more
<1>12. /\ IsFiniteSet(All(S))
       /\ Cardinality(All(S)) = Cardinality(All(R)) + o.quantity - Cardinality({})
  <2>1. /\ IsFiniteSet(All(R) \cup claims[o])
        /\ Cardinality(All(R) \cup claims[o]) =
             Cardinality(All(R)) + Cardinality(claims[o]) - Cardinality(All(R) \cap claims[o])
    BY <1>10, <1>11, FS_Union
  <2> QED BY <1>8, <1>10, <2>1
<1>13. /\ IsFiniteSet(Asked(S))
       /\ Cardinality(Asked(S)) = Cardinality(Asked(R)) + o.quantity - Cardinality({})
  BY <1>9, <1>10, <1>11, FS_Union DEF more
<1> QED BY <1>4, <1>11, <1>12, <1>13

LEMMA AskedIsFinite ==
  ASSUME NEW T, IsFiniteSet(T), \A o \in T : o.quantity \in Nat
  PROVE  IsFiniteSet(Asked(T)) /\ Cardinality(Asked(T)) \in Nat
<1> DEFINE claims == [o \in T |-> {o} \X (1..o.quantity)]
<1>1. \A o \in T : IsFiniteSet(claims[o]) /\ Cardinality(claims[o]) = o.quantity
  BY UnitsOfOne
<1>2. \A o, p \in T : o # p => claims[o] \cap claims[p] = {}
  OBVIOUS
<1> HIDE DEF claims
<1>3. IsFiniteSet(Asked(T))
  BY <1>1, <1>2, FilledCount
<1> QED BY <1>3, FS_CardinalityType

(* Fewer offers ask for less, and one more for its quantity more.          *)
LEMMA AskedGrows ==
  ASSUME NEW T, IsFiniteSet(T), \A o \in T : o.quantity \in Nat
  PROVE  /\ \A S \in SUBSET T : Cardinality(Asked(S)) <= Cardinality(Asked(T))
         /\ \A o : o \notin T /\ o.quantity \in Nat =>
              Cardinality(Asked(T \cup {o})) = Cardinality(Asked(T)) + o.quantity
<1>1. ASSUME NEW S \in SUBSET T PROVE Cardinality(Asked(S)) <= Cardinality(Asked(T))
  <2>1. Asked(S) \subseteq Asked(T)
    BY DEF Asked
  <2> QED BY <2>1, AskedIsFinite, FS_Subset
<1>2. ASSUME NEW o, o \notin T, o.quantity \in Nat
      PROVE  Cardinality(Asked(T \cup {o})) = Cardinality(Asked(T)) + o.quantity
  <2> DEFINE more == {o} \X (1..o.quantity)
  <2>1. Asked(T \cup {o}) = Asked(T) \cup more
    BY DEF Asked
  <2>2. Asked(T) \cap more = {}
    <3>1. \A x \in Asked(T) : x[1] \in T
      BY DEF Asked
    <3>2. \A x \in more : x[1] \notin T
      BY <1>2
    <3> QED BY <3>1, <3>2
  <2>3. /\ IsFiniteSet(Asked(T)) /\ Cardinality(Asked(T)) \in Nat
        /\ IsFiniteSet(more) /\ Cardinality(more) = o.quantity
    BY <1>2, AskedIsFinite, UnitsOfOne
  <2> HIDE DEF more
  <2>4. Cardinality(Asked(T) \cup more) =
          Cardinality(Asked(T)) + Cardinality(more) - Cardinality(Asked(T) \cap more)
    BY <2>3, FS_Union
  <2>5. Cardinality(Asked(T) \cap more) = 0
    BY <2>2, FS_EmptySet
  <2> DEFINE a == Cardinality(Asked(T))
             q == o.quantity
             b == Cardinality(Asked(T) \cup more)
  <2>6. a \in Nat /\ q \in Nat /\ b = a + q - 0
    BY <1>2, <2>3, <2>4, <2>5
  <2>7. Cardinality(Asked(T \cup {o})) = b
    BY <2>1
  <2> HIDE DEF a, q, b
  <2>8. b = a + q
    BY <2>6
  <2> QED BY <2>7, <2>8 DEF a, q
<1> QED BY <1>1, <1>2

(* The offers of a group.                                                  *)
OfGroup(offers, group) == {o \in offers : o.group = group}

(* Where no copy is offered to two groups.                                 *)
Apart(offers, supplyByGroup) ==
  \A o, p \in offers : o.group # p.group =>
    supplyByGroup[o.group] \cap supplyByGroup[p.group] = {}

(* Then the offers can all be filled exactly if each group has as many     *)
(* copies as they ask of it.                                               *)
LEMMA FilledIffEnough ==
  ASSUME NEW offers, NEW supplyByGroup, AreRows(offers), Stocked(offers, supplyByGroup),
         Apart(offers, supplyByGroup),
         NEW claims, AreClaims(claims, offers, supplyByGroup)
  PROVE  Unfillable(claims) = {} <=>
           \A o \in offers :
             Cardinality(Asked(OfGroup(offers, o.group))) <= Cardinality(supplyByGroup[o.group])
<1>0. /\ IsFiniteSet(offers) /\ \A o \in offers : o.id \in Nat /\ o.quantity \in Nat
      /\ \A o \in offers : IsFiniteSet(supplyByGroup[o.group])
  BY DEF AreRows, Stocked
<1>1. ASSUME Unfillable(claims) = {}, NEW o \in offers
      PROVE  Cardinality(Asked(OfGroup(offers, o.group))) <= Cardinality(supplyByGroup[o.group])
  <2> DEFINE T == OfGroup(offers, o.group)
             all == UNION {claims[p] : p \in T}
  <2>1. T \subseteq offers /\ IsFiniteSet(T)
    BY <1>0, FS_Subset DEF OfGroup
  <2>2. ASSUME NEW p \in T
        PROVE  /\ IsFiniteSet(claims[p]) /\ Cardinality(claims[p]) = p.quantity
               /\ claims[p] \subseteq supplyByGroup[o.group]
    <3>1. p \in offers /\ p.group = o.group
      BY DEF OfGroup
    <3>2. ~(Cardinality(Left(claims, offers, supplyByGroup, p)) < p.quantity)
      BY <1>1, <3>1, UnfillableIffTooFew
    <3> QED BY <3>1, <3>2, ClaimIsGiven
  <2>3. \A p, q \in T : p # q => claims[p] \cap claims[q] = {}
    BY <2>1, ClaimsAreApart
  <2>4. Cardinality(all) = Cardinality(Asked(T))
    <3>1. \A p \in T : IsFiniteSet(claims[p]) /\ Cardinality(claims[p]) = p.quantity
      BY <2>2
    <3>2. \A p \in T : p.quantity \in Nat
      BY <1>0, <2>1
    <3> HIDE DEF T
    <3> QED BY <2>1, <2>3, <3>1, <3>2, FilledCount
  <2>5. all \subseteq supplyByGroup[o.group]
    BY <2>2
  <2>6. Cardinality(all) <= Cardinality(supplyByGroup[o.group])
    <3> HIDE DEF all
    <3> QED BY <1>0, <2>5, FS_Subset
  <2> QED BY <2>4, <2>6
<1>2. ASSUME Unfillable(claims) # {},
             \A o \in offers : Cardinality(Asked(OfGroup(offers, o.group))) <=
                                 Cardinality(supplyByGroup[o.group])
      PROVE  FALSE
  <2> DEFINE bad == {o.id : o \in Unfillable(claims)}
  <2>0. Unfillable(claims) \subseteq offers
    BY DEF Unfillable, AreClaims
  <2>1. PICK n \in bad : \A m \in bad : n <= m
    <3>1. bad \in SUBSET Nat /\ bad # {}
      BY <1>0, <1>2, <2>0
    <3> HIDE DEF bad
    <3> QED BY <3>1, LeastNumber
  <2>2. PICK o \in Unfillable(claims) : n = o.id
    BY <2>1
  <2>3. o \in offers
    BY <2>0
  <2>4. ASSUME NEW p \in offers, p.id < o.id PROVE p \notin Unfillable(claims)
    <3>1. p.id \in Nat /\ o.id \in Nat
      BY <1>0, <2>3
    <3>2. p \in Unfillable(claims) => p.id \in bad
      OBVIOUS
    <3> HIDE DEF bad
    <3> QED BY <2>1, <2>2, <2>4, <3>1, <3>2
  <2> DEFINE E == {p \in OfGroup(offers, o.group) : p.id < o.id}
             all == UNION {claims[p] : p \in E}
             stock == supplyByGroup[o.group]
  <2>5. E \subseteq offers /\ IsFiniteSet(E) /\ o \notin E /\ o.quantity \in Nat
    BY <1>0, <2>3, FS_Subset DEF OfGroup
  <2>6. ASSUME NEW p \in E
        PROVE  /\ IsFiniteSet(claims[p]) /\ Cardinality(claims[p]) = p.quantity
               /\ claims[p] \subseteq stock
    <3>1. p \in offers /\ p.group = o.group /\ p.id < o.id
      BY DEF OfGroup
    <3>2. ~(Cardinality(Left(claims, offers, supplyByGroup, p)) < p.quantity)
      BY <2>4, <3>1, UnfillableIffTooFew
    <3> QED BY <3>1, <3>2, ClaimIsGiven
  <2>7. \A p, q \in E : p # q => claims[p] \cap claims[q] = {}
    BY <2>5, ClaimsAreApart
  <2>8. Cardinality(all) = Cardinality(Asked(E)) /\ IsFiniteSet(all)
    <3>1. \A p \in E : IsFiniteSet(claims[p]) /\ Cardinality(claims[p]) = p.quantity
      BY <2>6
    <3>2. \A p \in E : p.quantity \in Nat
      BY <1>0, <2>5
    <3>3. IsFiniteSet(E)
      BY <2>5
    <3>5. \A p, q \in E : p # q => claims[p] \cap claims[q] = {}
      BY <2>7
    <3> HIDE DEF E, stock
    <3>4. Cardinality(all) = Cardinality(Asked(E))
      BY <3>1, <3>2, <3>3, <3>5, FilledCount
    <3>6. IsFiniteSet(all)
      BY <3>1, <3>2, <3>3, <3>5, FilledCount
    <3> QED BY <3>4, <3>6
  <2>9. Before(claims, offers, o) \cap stock = all
    <3>1. ASSUME NEW p \in offers, p.id < o.id, p.group # o.group
          PROVE  claims[p] \cap stock = {}
      <4>1. claims[p] \subseteq supplyByGroup[p.group]
        BY ClaimIsGiven
      <4>2. supplyByGroup[p.group] \cap stock = {}
        BY <2>3, <3>1 DEF Apart
      <4> QED BY <4>1, <4>2
    <3>2. \A p \in E : p \in offers /\ p.id < o.id /\ claims[p] \subseteq stock
      BY <2>5, <2>6
    <3>3. \A p \in offers : p.id < o.id /\ p.group = o.group => p \in E
      BY DEF OfGroup
    <3> HIDE DEF E
    <3> QED BY <3>1, <3>2, <3>3 DEF Before
  <2>10. Left(claims, offers, supplyByGroup, o) = stock \ all
    BY <2>9 DEF Left
  <2>11. all \subseteq stock
    BY <2>6
  <2>12. Cardinality(Asked(E)) + o.quantity <= Cardinality(stock)
    <3>1. E \cup {o} \subseteq OfGroup(offers, o.group)
      BY <2>3 DEF OfGroup
    <3>2. /\ IsFiniteSet(OfGroup(offers, o.group))
          /\ \A p \in OfGroup(offers, o.group) : p.quantity \in Nat
      BY <1>0, FS_Subset DEF OfGroup
    <3>3. Cardinality(Asked(E \cup {o})) <= Cardinality(Asked(OfGroup(offers, o.group)))
      BY <3>1, <3>2, AskedGrows
    <3>4. Cardinality(Asked(E \cup {o})) = Cardinality(Asked(E)) + o.quantity
      <4> HIDE DEF E
      <4> QED BY <1>0, <2>5, AskedGrows
    <3>5. /\ Cardinality(Asked(OfGroup(offers, o.group))) \in Nat
          /\ Cardinality(Asked(E)) \in Nat
      BY <1>0, <2>5, <3>2, AskedIsFinite
    <3>6. Cardinality(stock) \in Nat
      BY <1>0, <2>3, FS_CardinalityType
    <3>7. Cardinality(Asked(OfGroup(offers, o.group))) <= Cardinality(stock)
      BY <1>2, <2>3
    <3> HIDE DEF E, stock
    <3> QED BY <2>5, <3>3, <3>4, <3>5, <3>6, <3>7
  <2>13. Cardinality(stock \ all) = Cardinality(stock) - Cardinality(all)
    <3>1. IsFiniteSet(stock)
      BY <1>0, <2>3
    <3>2. stock \cap all = all
      BY <2>11
    <3> HIDE DEF stock, all
    <3>3. Cardinality(stock \ all) = Cardinality(stock) - Cardinality(stock \cap all)
      BY <3>1, FS_Difference
    <3> QED BY <3>2, <3>3
  <2>14. Cardinality(stock) \in Nat /\ Cardinality(all) \in Nat
    BY <1>0, <2>3, <2>8, FS_CardinalityType
  <2>15. Cardinality(Left(claims, offers, supplyByGroup, o)) < o.quantity
    BY <2>2, <2>3, UnfillableIffTooFew
  <2> HIDE DEF stock, all, E
  <2> QED BY <2>5, <2>8, <2>10, <2>12, <2>13, <2>14, <2>15
<1> QED BY <1>1, <1>2

(* And what is available in a group is what its offers do not ask for.     *)
LEMMA AvailableIsRest ==
  ASSUME NEW pending, NEW supplyByGroup, AreRows(pending), Stocked(pending, supplyByGroup),
         NEW group, IsFiniteSet(supplyByGroup[group]),
         \A o \in Offers(pending) : o.group # group =>
           supplyByGroup[o.group] \cap supplyByGroup[group] = {},
         Unfillable(ClaimCopiesForOffers(Offers(pending), supplyByGroup)) = {}
  PROVE  AvailableCount(pending, supplyByGroup, group) =
           Cardinality(supplyByGroup[group])
             - Cardinality(Asked(OfGroup(Offers(pending), group)))
<1> DEFINE offers == Offers(pending)
           claims == ClaimCopiesForOffers(offers, supplyByGroup)
           T      == OfGroup(offers, group)
           all    == UNION {claims[p] : p \in T}
           stock  == supplyByGroup[group]
<1>1. /\ AreRows(offers) /\ Stocked(offers, supplyByGroup)
      /\ AreClaims(claims, offers, supplyByGroup) /\ Unfillable(claims) = {}
  BY OffersAreRows
<1>2. /\ T \subseteq offers /\ IsFiniteSet(T) /\ \A p \in T : p.quantity \in Nat
  BY <1>1, FS_Subset DEF OfGroup, AreRows
<1> HIDE DEF offers, claims
<1>3. \A p \in offers : claims[p] \subseteq supplyByGroup[p.group] /\ IsFiniteSet(claims[p])
  BY <1>1, ClaimIsGiven
<1>4. ASSUME NEW p \in offers PROVE Cardinality(claims[p]) = p.quantity
  <2>1. ~(Cardinality(Left(claims, offers, supplyByGroup, p)) < p.quantity)
    BY <1>1, UnfillableIffTooFew
  <2> QED BY <1>1, <2>1, ClaimIsGiven
<1>5. \A p, q \in T : p # q => claims[p] \cap claims[q] = {}
  BY <1>1, <1>2, ClaimsAreApart
<1>6. Cardinality(all) = Cardinality(Asked(T))
  <2>1. \A p \in T : IsFiniteSet(claims[p]) /\ Cardinality(claims[p]) = p.quantity
    BY <1>2, <1>3, <1>4
  <2> HIDE DEF T
  <2> QED BY <1>2, <1>5, <2>1, FilledCount
<1>7. Taken(claims) \cap stock = all
  <2>1. DOMAIN claims = offers
    BY <1>1 DEF AreClaims
  <2>2. \A p \in offers : p.group # group => claims[p] \cap stock = {}
    BY <1>3 DEF offers
  <2>3. \A p \in offers : p.group = group => p \in T /\ claims[p] \subseteq stock
    BY <1>3 DEF OfGroup
  <2>4. \A p \in T : p \in offers /\ claims[p] \subseteq stock
    BY <1>3 DEF OfGroup
  <2> HIDE DEF T, stock
  <2> QED BY <2>1, <2>2, <2>3, <2>4 DEF Taken
<1>8. Cardinality(stock \ Taken(claims)) =
        Cardinality(stock) - Cardinality(stock \cap Taken(claims))
  BY FS_Difference
<1>9. stock \cap Taken(claims) = all
  BY <1>7
<1>10. AvailableCount(pending, supplyByGroup, group) = Cardinality(stock \ Taken(claims))
  BY DEF AvailableCount, claims, offers
<1> HIDE DEF stock, all, T
<1> QED BY <1>6, <1>8, <1>9, <1>10 DEF stock, T, offers

(* A trade that is younger than the others and passes the check of         *)
(* assertSupplyAvailable is not cancelled by a sweep, and takes nothing    *)
(* from an older offer.                                                    *)
THEOREM NewTradeFits ==
  ASSUME NEW more, NEW supplyByGroup, AreRows(more), Stocked(more, supplyByGroup),
         NEW o \in more, NEW pending, pending = more \ {o}, \A p \in pending : p.id < o.id,
         o.quantity <= AvailableCount(pending, supplyByGroup, o.group)
  PROVE  /\ o.id \notin AutoCancelled(more, supplyByGroup)
         /\ \A p \in Offers(pending) : p.id \in AutoCancelled(more, supplyByGroup) =>
                                         p.id \in AutoCancelled(pending, supplyByGroup)
<1> DEFINE elder  == Offers(pending)
           offers == Offers(more)
           claims == ClaimCopiesForOffers(elder, supplyByGroup)
           again  == ClaimCopiesForOffers(offers, supplyByGroup)
<1>1. /\ AreRows(pending) /\ Stocked(pending, supplyByGroup)
      /\ elder \in SUBSET offers /\ offers \ {o} = elder
  BY FS_Subset DEF AreRows, Stocked, Offers
<1>2. /\ AreRows(offers) /\ Stocked(offers, supplyByGroup) /\ offers \in SUBSET more
      /\ AreClaims(again, offers, supplyByGroup)
  BY OffersAreRows
<1>3. /\ AreRows(elder) /\ Stocked(elder, supplyByGroup) /\ elder \in SUBSET pending
      /\ AreClaims(claims, elder, supplyByGroup)
  BY <1>1, OffersAreRows
<1>4. AvailableCount(pending, supplyByGroup, o.group) =
        Cardinality(supplyByGroup[o.group] \ Taken(claims))
  BY DEF AvailableCount
<1>5. \A p \in more : p.id \in AutoCancelled(more, supplyByGroup) =>
        p \in Unfillable(again) \/ p \in TooLarge(more, supplyByGroup)
  <2>1. Unfillable(again) \subseteq more /\ TooLarge(more, supplyByGroup) \subseteq more
    BY <1>2 DEF Unfillable, TooLarge, AreClaims
  <2>2. \A p, q \in more : p.id = q.id => p = q
    BY DEF AreRows
  <2> QED BY <2>1, <2>2 DEF AutoCancelled
<1>6. \A p \in offers : p \notin TooLarge(more, supplyByGroup)
  BY DEF TooLarge
<1>7. DOMAIN claims = elder /\ DOMAIN again = offers
  BY <1>2, <1>3 DEF AreClaims
<1>o. o.id \in Nat /\ o.quantity \in Nat /\ \A p \in pending : p.id \in Nat
  BY DEF AreRows
<1>y. ~(o.id < o.id) /\ \A p \in elder : p.id < o.id /\ ~(o.id < p.id)
  <2>1. \A p \in pending : ~(o.id < p.id)
    BY <1>o
  <2> QED BY <1>3, <1>o, <2>1
<1>8. \A p \in elder : again[p] = claims[p]
  <2>1. elder \in SUBSET offers /\ AreRows(offers)
    BY <1>1, <1>2
  <2>2. \A q \in elder, p \in offers : p.id < q.id => p \in elder
    BY <1>1, <1>y
  <2>3. AreClaims(claims, elder, supplyByGroup) /\ AreClaims(again, offers, supplyByGroup)
    BY <1>2, <1>3
  <2> HIDE DEF elder, offers, claims, again
  <2> QED BY <2>1, <2>2, <2>3, YoungerOffersWait
<1>9. \A p \in elder : p.id \in AutoCancelled(more, supplyByGroup) =>
                         p.id \in AutoCancelled(pending, supplyByGroup)
  <2> SUFFICES ASSUME NEW p \in elder, p.id \in AutoCancelled(more, supplyByGroup)
               PROVE  p.id \in AutoCancelled(pending, supplyByGroup)
    OBVIOUS
  <2>1. p \in Unfillable(again)
    BY <1>1, <1>2, <1>5, <1>6
  <2>2. p \in Unfillable(claims)
    BY <1>7, <1>8, <2>1 DEF Unfillable
  <2> QED BY <2>2 DEF AutoCancelled
<1>10. ASSUME o \in offers PROVE o \notin Unfillable(again)
  <2>1. {q \in offers : q.id < o.id} = elder
    <3> HIDE DEF elder, offers
    <3> QED BY <1>1, <1>y
  <2>2. Before(again, offers, o) = Taken(claims)
    BY <1>7, <1>8, <2>1 DEF Before, Taken
  <2>3. Left(again, offers, supplyByGroup, o) = supplyByGroup[o.group] \ Taken(claims)
    BY <2>2 DEF Left
  <2>4. IsFiniteSet(supplyByGroup[o.group])
    BY DEF Stocked
  <2>5. Cardinality(supplyByGroup[o.group] \ Taken(claims)) \in Nat
    BY <2>4, FS_Subset, FS_CardinalityType
  <2>6. ~(Cardinality(Left(again, offers, supplyByGroup, o)) < o.quantity)
    <3> HIDE DEF again, claims, offers
    <3> QED BY <1>4, <1>o, <2>3, <2>5
  <2> HIDE DEF again, claims, offers
  <2> QED BY <1>2, <1>10, <2>6, UnfillableIffTooFew
<1>11. ASSUME o \notin offers PROVE o \notin TooLarge(more, supplyByGroup)
  <2>1. offers = elder
    BY <1>1, <1>11
  <2>2. AvailableCount(more, supplyByGroup, o.group) =
          AvailableCount(pending, supplyByGroup, o.group)
    BY <2>1 DEF AvailableCount
  <2>3. AvailableCount(pending, supplyByGroup, o.group) \in Nat
    BY AvailableIsNumber DEF Stocked
  <2> QED BY <1>o, <2>2, <2>3 DEF TooLarge
<1>12. o.id \notin AutoCancelled(more, supplyByGroup)
  BY <1>5, <1>6, <1>7, <1>10, <1>11 DEF Unfillable
<1> QED BY <1>9, <1>12
=============================================================================
