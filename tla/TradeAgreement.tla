--------------------------- MODULE TradeAgreement ---------------------------
(***************************************************************************)
(* What a card trade promises its two parties, whatever rows, splits,      *)
(* reservations and sweeps the service uses to keep it: an agreement over  *)
(* an amount is asked for, promised, and then settled by each side in its  *)
(* own portions.  Neither side can settle more than the amount, what a     *)
(* side has settled cannot be withdrawn under it, and the agreement is     *)
(* over only when both have settled all that is left of it - unless the    *)
(* group or a party it was made with is gone.                              *)
(*                                                                         *)
(* An agreement is one call of createTrade; CardTradesAgreement maps the   *)
(* rows of CardTrades to it.                                               *)
(***************************************************************************)
EXTENDS Naturals

CONSTANTS Agreements, Sides

VARIABLES
  phase,    \* "none", "asked", "promised", "over" or "void"
  amount,   \* copies the agreement is over
  done,     \* copies each side has settled
  intact    \* its group and its two parties still exist

vars == <<phase, amount, done, intact>>

Init ==
  /\ phase  = [a \in Agreements |-> "none"]
  /\ amount = [a \in Agreements |-> 0]
  /\ done   = [a \in Agreements |-> [s \in Sides |-> 0]]
  /\ intact = [a \in Agreements |-> FALSE]

-----------------------------------------------------------------------------
(* The steps of one agreement *)

Complete(a) == \A s \in Sides : done[a][s] = amount[a]

Keeps(a)     == phase'[a] = phase[a] /\ amount'[a] = amount[a]
Undone(a)    == done'[a] = done[a]
Unbroken(a)  == intact'[a] = intact[a]
Unchanged(a) == Keeps(a) /\ Undone(a) /\ Unbroken(a)

Ask(a) ==
  /\ phase[a] = "none" /\ phase'[a] = "asked"
  /\ amount'[a] \in Nat \ {0} /\ Undone(a) /\ intact'[a]

Resize(a) ==
  /\ phase[a] = "asked" /\ phase'[a] = "asked" /\ intact[a]
  /\ amount'[a] \in Nat \ {0} /\ Undone(a) /\ Unbroken(a)

Promise(a) ==
  /\ phase[a] = "asked" /\ phase'[a] = "promised" /\ intact[a]
  /\ amount'[a] = amount[a] /\ Undone(a) /\ Unbroken(a)

(* One side settles a portion; the other side's portions are its own.      *)
Settle(a) ==
  /\ phase[a] = "promised" /\ intact[a]
  /\ \E s \in Sides :
       /\ done'[a][s] > done[a][s] /\ done'[a][s] <= amount[a]
       /\ \A r \in Sides \ {s} : done'[a][r] = done[a][r]
  /\ amount'[a] = amount[a] /\ Unbroken(a)
  /\ phase'[a] = IF Complete(a)' THEN "over" ELSE "promised"

(* A request that is declined, cancelled, expired or swept.                *)
Withdraw(a) ==
  /\ phase[a] = "asked" /\ phase'[a] = "over" /\ amount'[a] = 0
  /\ Undone(a) /\ (intact'[a] => intact[a])

(* What no side has settled yet is called off; the rest stays promised.    *)
CallOff(a) ==
  /\ phase[a] = "promised" /\ amount'[a] < amount[a]
  /\ \A s \in Sides : done[a][s] <= amount'[a]
  /\ Undone(a) /\ Unbroken(a)
  /\ phase'[a] = IF Complete(a)' THEN "over" ELSE "promised"

(* The group or a party is gone; only then may one side be left unsettled. *)
Break(a) ==
  /\ intact[a] /\ ~intact'[a] /\ Undone(a)
  /\ IF phase[a] = "promised"
     THEN /\ amount'[a] <= amount[a] /\ \A s \in Sides : done[a][s] <= amount'[a]
          /\ phase'[a] = IF Complete(a)' THEN "over" ELSE "void"
     ELSE phase[a] \in {"over", "void"} /\ Keeps(a)

-----------------------------------------------------------------------------
(* An operation advances one agreement and may withdraw requests that can  *)
(* no longer be filled, or ends several agreements at once.                *)
Advance ==
  \E a \in Agreements :
    /\ Ask(a) \/ Resize(a) \/ Promise(a) \/ Settle(a)
    /\ \A b \in Agreements \ {a} : Unchanged(b) \/ Withdraw(b)

End ==
  \A a \in Agreements : Unchanged(a) \/ Withdraw(a) \/ CallOff(a) \/ Break(a)

Next == Advance \/ End
Spec == Init /\ [][Next]_vars

-----------------------------------------------------------------------------
(* Neither side ever settles more than is left of what was agreed.         *)
NeverTooMuch ==
  \A a \in Agreements : \A s \in Sides : done[a][s] <= amount[a]

(* An agreement that is over has been settled by both sides in full, or by *)
(* neither: only a group or a party that is gone can leave it uneven.      *)
BothOrNeither ==
  \A a \in Agreements :
    /\ phase[a] = "over" => Complete(a)
    /\ phase[a] = "void" => ~intact[a]
-----------------------------------------------------------------------------
(* For one agreement, what makes the two inductive: besides them, nothing  *)
(* is settled before the promise.                                          *)
EvenFor(a) ==
  /\ \A s \in Sides : done[a][s] <= amount[a]
  /\ phase[a] = "over" => Complete(a)
  /\ phase[a] = "void" => ~intact[a]
  /\ phase[a] \in {"none", "asked"} => \A s \in Sides : done[a][s] = 0
  /\ phase[a] = "none" => amount[a] = 0
=============================================================================
