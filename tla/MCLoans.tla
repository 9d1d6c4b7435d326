------------------------------ MODULE MCLoans -------------------------------
(* An instance of Loans for TLC: one lender's copies of a printing.        *)
EXTENDS Loans, TLC
CONSTANTS bob, l1, l2, c1, c2, p1, p2

Interchangeable ==
  Permutations(LoanIds) \cup Permutations(Copies) \cup Permutations(Requests)
=============================================================================
