---------------------------- MODULE MCCardTrades ----------------------------
(* Instances of CardTrades for TLC. *)
EXTENDS CardTradesAgreement
CONSTANTS ann, ben, cleo, club, team, c1, c2, c3, c4, c5, r1

InOrder   == [g \in Groups |-> [c \in Copies |->
                CHOOSE n \in 1..5 : <<c1, c2, c3, c4, c5>>[n] = c]]
AnnOwns(S) == [c \in Copies |-> IF c \in S THEN ann ELSE Nowhere]
Wants(n)  == [u \in Users |-> IF u = ben THEN n ELSE 0]

(* Settlement: ann owns three copies, all of them on a shared list.       *)
SettlePlace   == AnnOwns({c1, c2, c3})
SettleOffered == [g \in Groups |-> {c1, c2, c3}]
WantsThree    == Wants(3)

(* Supply: club sees all of ann's copies, team only two of them.           *)
SupplyPlace   == AnnOwns(Copies)
EveryoneWants == [u \in Users |-> IF u = ann THEN 0 ELSE 2]
SupplyOffered == [g \in Groups |-> IF g = club THEN {c1, c2, c3} ELSE {c1, c2}]
=============================================================================
