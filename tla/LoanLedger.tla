----------------------------- MODULE LoanLedger -----------------------------
(***************************************************************************)
(* What lending promises its two parties: an account per loan of the       *)
(* copies that are out, those the borrower says are back, and those the    *)
(* lender agrees are back.  Only the lender moves a copy into the last of  *)
(* these, and nothing moves it out again.                                  *)
(***************************************************************************)
EXTENDS Naturals

CONSTANTS
  Loans,
  MaxQuantity    \* the copies one loan may be about

VARIABLE ledger

Entry(stage, out, declared, settled) ==
  [stage |-> stage, out |-> out, declared |-> declared, settled |-> settled]

Init == ledger = [l \in Loans |-> Entry("none", 0, 0, 0)]

(* How an account may go from d to e.                                      *)
Lend(d, e) ==
  d.stage = "none" /\ \E n \in 1..MaxQuantity : e = Entry("open", n, 0, 0)

(* The lender takes copies back, and with that accepts what was declared.  *)
TakeBack(d, e) ==
  \E n \in 1..d.out : e = Entry("open", d.out - n, 0, d.settled + d.declared + n)
Declare(d, e) ==
  \E n \in 1..d.out : e = Entry("open", d.out - n, d.declared + n, d.settled)

Agree(d, e)   == e = Entry("open", d.out, 0, d.settled + d.declared)
Dispute(d, e) == e = Entry("open", d.out + d.declared, 0, d.settled)

(* The lender gives up what is still out.                                  *)
GiveUp(d, e) == d.out > 0 /\ e = Entry("lost", d.out, 0, d.settled + d.declared)

Forget(d, e) == d.stage # "none" /\ e = Entry("deleted", 0, 0, 0)

Changed(d, e) ==
  \/ Lend(d, e) \/ Forget(d, e)
  \/ /\ d.stage = "open"
     /\ TakeBack(d, e) \/ Declare(d, e) \/ Agree(d, e) \/ Dispute(d, e) \/ GiveUp(d, e)

Next == \E l \in Loans : /\ Changed(ledger[l], ledger'[l])
                         /\ ledger' = [ledger EXCEPT ![l] = ledger'[l]]

Spec == Init /\ [][Next]_ledger

-----------------------------------------------------------------------------
Entries == [stage : {"none", "open", "lost", "deleted"},
            out : Nat, declared : Nat, settled : Nat]
TypeOK == ledger \in [Loans -> Entries]

Size(e) == e.out + e.declared + e.settled

(* From lending to deletion a loan is about the same number of copies, and *)
(* what the lender agreed is back is never out again: no order of returns, *)
(* declarations, disputes and write-offs loses a copy or counts it twice.  *)
(* A loan that was written off or deleted does not come back.              *)
Sound(d, e) ==
  /\ d.stage \in {"open", "lost"} /\ e.stage # "deleted" =>
       Size(e) = Size(d) /\ d.settled <= e.settled
  /\ d.stage = "lost" => e = d \/ e.stage = "deleted"
  /\ d.stage = "deleted" => e.stage = "deleted"
NothingIsLost == [][\A l \in Loans : Sound(ledger[l], ledger'[l])]_ledger
=============================================================================
