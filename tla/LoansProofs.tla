---------------------------- MODULE LoansProofs -----------------------------
(***************************************************************************)
(* Proofs about Loans for every number of loans, copies, friends and       *)
(* requests in progress.                                                   *)
(***************************************************************************)
EXTENDS Loans, TLAPS, FiniteSetTheorems

(* What a request in progress has read and still relies on: while it holds *)
(* the row of a loan, nobody else changes what was declared on it.         *)
AsksAreSound ==
  /\ \A p \in Requests :
       LET ask == asked[p]
       IN  /\ ask.step = "lend" => ask.count \in 1..MaxQuantity
           /\ ask.step \in {"reopen", "repin"} => ask.loan \in LoanIds /\ ask.count > 0
           /\ ask.step = "repin" => loans[ask.loan].declared = ask.count
  /\ \A p, q \in Requests :
       asked[p].step = "repin" /\ asked[q].step = "repin"
         /\ asked[p].loan = asked[q].loan => p = q

(* Only a loan that was lent and not given up has returns to review.       *)
DeclaredIsOpen ==
  \A l \in LoanIds : loans[l].declared > 0 => loans[l].status \in {"active", "returned"}

IInv == TypeOK /\ PinsAreOut /\ OutIsPinned /\ EachCopyOnce /\ AsksAreSound /\ DeclaredIsOpen

-----------------------------------------------------------------------------
(* Counting pins *)

LEMMA PinsAreFinite ==
  ASSUME NEW S \in SUBSET Copies
  PROVE  IsFiniteSet(S) /\ Cardinality(S) \in Nat
BY LoansAssumption, FS_Subset, FS_CardinalityType DEF LoansAssumption

LEMMA FewerPins ==
  ASSUME NEW S \in SUBSET Copies, NEW R \in SUBSET S
  PROVE  /\ Cardinality(R) \in Nat /\ Cardinality(S \ R) \in Nat
         /\ Cardinality(S \ R) = Cardinality(S) - Cardinality(R)
<1>1. S \cap R = R
  OBVIOUS
<1> QED
  BY <1>1, PinsAreFinite, FS_Difference

LEMMA MorePins ==
  ASSUME NEW S \in SUBSET Copies, NEW P \in SUBSET Copies, S \cap P = {}
  PROVE  /\ Cardinality(S \cup P) \in Nat
         /\ Cardinality(S \cup P) = Cardinality(S) + Cardinality(P)
<1>1. /\ IsFiniteSet(S) /\ IsFiniteSet(P) /\ IsFiniteSet(S \cup P)
      /\ Cardinality(S) \in Nat /\ Cardinality(P) \in Nat /\ Cardinality(S \cup P) \in Nat
  <2>1. S \cup P \in SUBSET Copies
    OBVIOUS
  <2> QED
    BY <2>1, PinsAreFinite
<1>2. Cardinality(S \cap P) = 0
  BY FS_EmptySet
<1>3. Cardinality(S \cup P) = Cardinality(S) + Cardinality(P) - Cardinality(S \cap P)
  BY <1>1, FS_Union
<1> QED
  BY <1>1, <1>2, <1>3

LEMMA NoPins == Cardinality({}) = 0
BY FS_EmptySet

(* The pins of the other loans are left alone.                             *)
LEMMA OthersPinsStay ==
  ASSUME TypeOK, NEW l \in LoanIds, NEW S, pins' = [pins EXCEPT ![l] = S]
  PROVE  /\ pins'[l] = S
         /\ \A k \in LoanIds \ {l} : pins'[k] = pins[k]
BY DEF TypeOK

LEMMA InitIInv == Init => IInv
<1> SUFFICES ASSUME Init PROVE IInv
  OBVIOUS
<1>1. TypeOK
  BY LoansAssumption DEF Init, TypeOK, Rows, Places, Asks, Absent, Row, Idle
<1>2. PinsAreOut /\ OutIsPinned
  BY NoPins DEF Init, PinsAreOut, OutIsPinned, Absent, Row
<1>3. EachCopyOnce
  BY DEF Init, EachCopyOnce, Lent
<1>4. AsksAreSound /\ DeclaredIsOpen
  BY DEF Init, AsksAreSound, DeclaredIsOpen, Idle, Absent, Row
<1> QED
  BY <1>1, <1>2, <1>3, <1>4 DEF IInv

-----------------------------------------------------------------------------
(* Steps that change one row *)

(* The CHECK constraints of the table, for one row.                        *)
RowIsSound(row) ==
  /\ row \in Rows
  /\ row.declared <= row.returned /\ row.returned <= row.quantity
  /\ row.status = "returned" => row.returned = row.quantity
  /\ row.status = "active" => row.returned < row.quantity
  /\ row.declared > 0 => row.status \in {"active", "returned"}

LEMMA RowsAreSound ==
  ASSUME IInv, NEW l \in LoanIds
  PROVE  /\ RowIsSound(loans[l]) /\ pins[l] \in SUBSET Copies
         /\ Outstanding(loans[l]) \in Nat
         /\ Cardinality(pins[l]) \in Nat
BY PinsAreFinite DEF IInv, TypeOK, DeclaredIsOpen, RowIsSound, Rows, Outstanding

(* What has to be shown of the row and the pins of the loan in question.   *)
LEMMA UpdateKeepsIInv ==
  ASSUME IInv, NEW l \in LoanIds, NEW row, Update(l, row), RowIsSound(row),
         NEW S \in SUBSET pins[l], pins' = [pins EXCEPT ![l] = S],
         Cardinality(S) <= IF row.status = "active" THEN Outstanding(row) ELSE 0,
         row.status = "active" /\ l \notin short => Cardinality(S) >= Outstanding(row),
         place' \in [Copies -> Places]
  PROVE  IInv'
<1> USE DEF IInv
<1>1. /\ loans' = [loans EXCEPT ![l] = row]
      /\ loans' \in [LoanIds -> Rows] /\ loans'[l] = row
      /\ \A k \in LoanIds \ {l} : loans'[k] = loans[k]
  BY DEF Update, TypeOK, RowIsSound
<1>2. /\ pins'[l] = S /\ \A k \in LoanIds \ {l} : pins'[k] = pins[k]
  BY OthersPinsStay
<1>3. TypeOK'
  BY <1>1, <1>2 DEF TypeOK, Update, RowIsSound
<1>4. PinsAreOut'
  BY <1>1, <1>2 DEF PinsAreOut, Outstanding
<1>5. OutIsPinned'
  BY <1>1, <1>2 DEF OutIsPinned, Outstanding, Update
<1>6. EachCopyOnce'
  BY <1>2 DEF EachCopyOnce, Lent, Update
<1>7. AsksAreSound'
  BY <1>1 DEF AsksAreSound, Update, Locked
<1>8. DeclaredIsOpen'
  BY <1>1 DEF DeclaredIsOpen, RowIsSound
<1> QED
  BY <1>3, <1>4, <1>5, <1>6, <1>7, <1>8

LEMMA ReturnsKeepIInv ==
  ASSUME IInv, NEW l \in LoanIds, NEW n \in 1..MaxQuantity, NEW d \in Nat,
         loans[l].status = "active", n <= Outstanding(loans[l]), d <= loans[l].returned + n,
         Update(l, BroughtBack(loans[l], n, d)), ReleasePins(l, n), UNCHANGED place
  PROVE  IInv'
<1> DEFINE row == BroughtBack(loans[l], n, d)
<1>1. n \in Nat /\ n > 0
  BY LoansAssumption DEF LoansAssumption
<1>2. /\ RowIsSound(row) /\ Outstanding(row) = Outstanding(loans[l]) - n
      /\ row.status = "active" <=> Outstanding(row) > 0
  <2>1. RowIsSound(loans[l])
    BY RowsAreSound
  <2>2. /\ row.quantity = loans[l].quantity /\ row.returned = loans[l].returned + n
        /\ row.declared = d
        /\ row.status = IF loans[l].returned + n = loans[l].quantity THEN "returned"
                                                                    ELSE "active"
        /\ row.borrower = loans[l].borrower /\ row.acknowledged = loans[l].acknowledged
    BY <2>1 DEF RowIsSound, BroughtBack, Rows
  <2>3. row \in Rows
    <3>1. loans[l].returned + n \in Nat
      BY <1>1, <2>1 DEF RowIsSound, Rows
    <3>2. row = [loans[l] EXCEPT !.returned = loans[l].returned + n, !.declared = d,
                                 !.status = row.status]
      BY <2>1, <2>2 DEF BroughtBack, RowIsSound, Rows
    <3>3. row.status \in {"active", "returned"}
      BY <2>2
    <3> HIDE DEF row
    <3> QED
      BY <2>1, <3>1, <3>2, <3>3 DEF RowIsSound, Rows
  <2> QED
    BY <1>1, <2>1, <2>2, <2>3 DEF RowIsSound, Outstanding, Rows
<1>3. PICK R \in SUBSET pins[l] : /\ Cardinality(R) = Min2(n, Cardinality(pins[l]))
                                  /\ pins' = [pins EXCEPT ![l] = pins[l] \ R]
  BY DEF ReleasePins
<1>4. /\ Cardinality(pins[l] \ R) = Cardinality(pins[l]) - Cardinality(R)
      /\ Cardinality(pins[l]) \in Nat /\ Cardinality(R) \in Nat
  BY RowsAreSound, FewerPins
<1>5. Cardinality(pins[l]) <= Outstanding(loans[l]) /\ Outstanding(loans[l]) \in Nat
  BY RowsAreSound DEF IInv, PinsAreOut
<1>6. Cardinality(pins[l] \ R) <= IF row.status = "active" THEN Outstanding(row) ELSE 0
  BY <1>1, <1>2, <1>3, <1>4, <1>5 DEF Min2
<1>7. row.status = "active" /\ l \notin short => Cardinality(pins[l] \ R) >= Outstanding(row)
  <2>1. l \notin short => Cardinality(pins[l]) >= Outstanding(loans[l])
    BY DEF IInv, OutIsPinned
  <2> QED
    BY <1>1, <1>2, <1>3, <1>4, <1>5, <2>1 DEF Min2
<1>8. place' \in [Copies -> Places]
  BY DEF IInv, TypeOK
<1> HIDE DEF row
<1> QED
  BY <1>2, <1>3, <1>6, <1>7, <1>8, UpdateKeepsIInv DEF row

LEMMA ReturnLoanCopiesKeepsIInv ==
  ASSUME IInv, NEW l \in LoanIds, NEW n \in 1..MaxQuantity, ReturnLoanCopies(l, n)
  PROVE  IInv'
<1>1. loans[l].returned + n >= 0
  BY RowsAreSound, LoansAssumption DEF RowIsSound, Rows, LoansAssumption
<1> QED
  BY <1>1, ReturnsKeepIInv DEF ReturnLoanCopies

LEMMA DeclareLoanReturnKeepsIInv ==
  ASSUME IInv, NEW l \in LoanIds, NEW n \in 1..MaxQuantity, DeclareLoanReturn(l, n)
  PROVE  IInv'
<1>1. /\ loans[l].declared + n \in Nat
      /\ loans[l].declared + n <= loans[l].returned + n
  BY RowsAreSound, LoansAssumption DEF RowIsSound, Rows, LoansAssumption
<1> QED
  BY <1>1, ReturnsKeepIInv DEF DeclareLoanReturn

(* A row that keeps its counts keeps its pins.                             *)
LEMMA SamePinsKeepIInv ==
  ASSUME IInv, NEW l \in LoanIds, NEW row, Update(l, row), RowIsSound(row),
         row.status = loans[l].status, Outstanding(row) = Outstanding(loans[l]),
         UNCHANGED <<pins, place>>
  PROVE  IInv'
<1>1. /\ pins' = [pins EXCEPT ![l] = pins[l]]
      /\ place' \in [Copies -> Places]
  BY DEF IInv, TypeOK
<1>2. Cardinality(pins[l]) <= IF row.status = "active" THEN Outstanding(row) ELSE 0
  BY DEF IInv, PinsAreOut
<1>3. row.status = "active" /\ l \notin short => Cardinality(pins[l]) >= Outstanding(row)
  BY DEF IInv, OutIsPinned
<1> QED
  BY <1>1, <1>2, <1>3, UpdateKeepsIInv

LEMMA ConfirmBorrowerReturnKeepsIInv ==
  ASSUME IInv, NEW l \in LoanIds, ConfirmBorrowerReturn(l)
  PROVE  IInv'
<1> DEFINE row == [loans[l] EXCEPT !.declared = 0]
<1>1. RowIsSound(row) /\ row.status = loans[l].status /\ Outstanding(row) = Outstanding(loans[l])
  BY RowsAreSound DEF RowIsSound, Rows, Outstanding
<1> QED
  BY <1>1, SamePinsKeepIInv DEF ConfirmBorrowerReturn

LEMMA AnswerKeepsIInv ==
  ASSUME IInv, NEW l \in LoanIds, NEW b \in BOOLEAN, Answer(l, b)
  PROVE  IInv'
<1> DEFINE row == [loans[l] EXCEPT !.acknowledged = b]
<1>1. RowIsSound(row) /\ row.status = loans[l].status /\ Outstanding(row) = Outstanding(loans[l])
  BY RowsAreSound DEF RowIsSound, Rows, Outstanding
<1> QED
  BY <1>1, SamePinsKeepIInv DEF Answer

(* A loan that is over gives up all its pins.                              *)
LEMMA ClosingKeepsIInv ==
  ASSUME IInv, NEW l \in LoanIds, NEW row, Update(l, row), RowIsSound(row),
         row.status # "active", pins' = [pins EXCEPT ![l] = {}],
         place' \in [Copies -> Places]
  PROVE  IInv'
<1>1. {} \in SUBSET pins[l]
  OBVIOUS
<1>2. Cardinality({}) <= IF row.status = "active" THEN Outstanding(row) ELSE 0
  BY NoPins
<1> QED
  BY <1>1, <1>2, UpdateKeepsIInv

LEMMA WrittenOffIsSound ==
  ASSUME IInv, NEW l \in LoanIds
  PROVE  RowIsSound(WrittenOff(loans[l])) /\ WrittenOff(loans[l]).status # "active"
<1>1. RowIsSound(loans[l])
  BY RowsAreSound
<1> DEFINE row == WrittenOff(loans[l])
<1>2. row \in Rows
  BY <1>1 DEF RowIsSound, Rows, WrittenOff
<1>3. /\ row.status = "written_off" /\ row.declared = 0
      /\ row.returned = loans[l].returned /\ row.quantity = loans[l].quantity
  BY <1>1 DEF RowIsSound, Rows, WrittenOff
<1> HIDE DEF row
<1>4. RowIsSound(row)
  BY <1>1, <1>2, <1>3 DEF RowIsSound, Rows
<1> QED
  BY <1>3, <1>4 DEF row

LEMMA WriteOffsKeepIInv ==
  ASSUME IInv, NEW l \in LoanIds, WriteOffLoan(l) \/ WriteOffAndRemove(l)
  PROVE  IInv'
<1>1. place \in [Copies -> Places]
  BY DEF IInv, TypeOK
<1>2. CASE WriteOffLoan(l)
  BY <1>1, <1>2, WrittenOffIsSound, ClosingKeepsIInv DEF WriteOffLoan
<1>3. CASE WriteOffAndRemove(l)
  <2>1. place' \in [Copies -> Places]
    BY <1>1, <1>3 DEF WriteOffAndRemove, Places
  <2> QED
    BY <1>3, <2>1, WrittenOffIsSound, ClosingKeepsIInv DEF WriteOffAndRemove
<1> QED
  BY <1>2, <1>3

LEMMA DeleteLoanKeepsIInv ==
  ASSUME IInv, NEW l \in LoanIds, DeleteLoan(l)
  PROVE  IInv'
<1>1. RowIsSound(Deleted) /\ Deleted.status # "active"
  BY DEF RowIsSound, Rows, Deleted, Row
<1>2. place' \in [Copies -> Places]
  BY DEF IInv, TypeOK, DeleteLoan
<1> QED
  BY <1>1, <1>2, ClosingKeepsIInv DEF DeleteLoan

-----------------------------------------------------------------------------
(* Accounts and copies that go *)

(* Steps that keep the counts of every loan and start no request.          *)
LEMMA CopiesKeepIInv ==
  ASSUME IInv, loans' \in [LoanIds -> Rows], friends' \subseteq Friends,
         \A l \in LoanIds : /\ loans'[l].status = loans[l].status
                            /\ loans'[l].quantity = loans[l].quantity
                            /\ loans'[l].returned = loans[l].returned
                            /\ loans'[l].declared = loans[l].declared,
         asked' \in [Requests -> Asks],
         \A p \in Requests : asked'[p] = asked[p] \/ asked'[p].step = "idle",
         place' \in [Copies -> Places],
         reserved' \in SUBSET Copies, short' \in SUBSET LoanIds, short \subseteq short',
         pins' \in [LoanIds -> SUBSET Copies],
         \A l \in LoanIds : pins'[l] \subseteq pins[l],
         \A l \in LoanIds \ short' : pins'[l] = pins[l],
         \A l \in LoanIds : pins'[l] \cap reserved' = {}
  PROVE  IInv'
<1> USE DEF IInv
<1>1. TypeOK'
  BY DEF TypeOK
<1>2. PinsAreOut'
  <2> SUFFICES ASSUME NEW l \in LoanIds
               PROVE  Cardinality(pins'[l]) <= IF loans[l].status = "active"
                                               THEN Outstanding(loans[l]) ELSE 0
    BY DEF PinsAreOut, Outstanding
  <2>1. Cardinality(pins'[l]) <= Cardinality(pins[l])
    <3>1. pins'[l] \in SUBSET pins[l] /\ pins[l] \in SUBSET Copies
      BY DEF TypeOK
    <3> QED
      BY <3>1, PinsAreFinite, FS_Subset
  <2>2. Cardinality(pins'[l]) \in Nat /\ Cardinality(pins[l]) \in Nat
    BY PinsAreFinite DEF TypeOK
  <2> QED
    BY <2>1, <2>2, RowsAreSound DEF PinsAreOut
<1>3. OutIsPinned'
  BY DEF OutIsPinned, Outstanding
<1>4. EachCopyOnce'
  BY DEF EachCopyOnce, Lent
<1>5. AsksAreSound' /\ DeclaredIsOpen'
  BY DEF AsksAreSound, DeclaredIsOpen
<1> QED
  BY <1>1, <1>2, <1>3, <1>4, <1>5

(* Whatever deletes copies, lent or not.                                   *)
LEMMA CopiesGoKeepsIInv ==
  ASSUME IInv, loans' \in [LoanIds -> Rows], friends' \subseteq Friends,
         \A l \in LoanIds : /\ loans'[l].status = loans[l].status
                            /\ loans'[l].quantity = loans[l].quantity
                            /\ loans'[l].returned = loans[l].returned
                            /\ loans'[l].declared = loans[l].declared,
         asked' \in [Requests -> Asks],
         \A p \in Requests : asked'[p] = asked[p] \/ asked'[p].step = "idle",
         NEW C, CopiesGo(C), reserved' \subseteq reserved
  PROVE  IInv'
<1>1. /\ place \in [Copies -> Places] /\ pins \in [LoanIds -> SUBSET Copies]
      /\ reserved \in SUBSET Copies /\ short \in SUBSET LoanIds
      /\ \A l \in LoanIds : pins[l] \cap reserved = {}
  BY DEF IInv, TypeOK, EachCopyOnce, Lent
<1>2. place' \in [Copies -> Places]
  BY <1>1 DEF CopiesGo, Places
<1>3. /\ pins' \in [LoanIds -> SUBSET Copies]
      /\ \A l \in LoanIds : pins'[l] \subseteq pins[l]
      /\ short' \in SUBSET LoanIds /\ short \subseteq short'
  BY <1>1 DEF CopiesGo
<1>4. \A l \in LoanIds \ short' : pins'[l] = pins[l]
  BY <1>1 DEF CopiesGo
<1>5. reserved' \in SUBSET Copies /\ \A l \in LoanIds : pins'[l] \cap reserved' = {}
  BY <1>1, <1>3
<1> QED
  BY <1>2, <1>3, <1>4, <1>5, CopiesKeepIInv

(* A step that touches no loan and no request.                             *)
LEMMA LoansAreKept ==
  ASSUME IInv, KeepLoans
  PROVE  /\ loans' \in [LoanIds -> Rows] /\ friends' \subseteq Friends
         /\ \A l \in LoanIds : loans'[l] = loans[l]
         /\ asked' \in [Requests -> Asks] /\ \A p \in Requests : asked'[p] = asked[p]
BY DEF IInv, TypeOK, KeepLoans

LEMMA CopyStepKeepsIInv == ASSUME IInv, CopyStep PROVE IInv'
<1>1. /\ place \in [Copies -> Places]
      /\ pins \in [LoanIds -> SUBSET Copies] /\ reserved \in SUBSET Copies
      /\ short \in SUBSET LoanIds
      /\ \A l \in LoanIds : pins[l] \cap reserved = {}
  BY DEF IInv, TypeOK, EachCopyOnce, Lent
<1>2. ASSUME NEW c \in Copies, ReserveCopy(c) PROVE IInv'
  <2>1. \A l \in LoanIds : c \notin pins[l]
    BY <1>2 DEF ReserveCopy, Lent
  <2> QED
    BY <1>1, <1>2, <2>1, LoansAreKept, CopiesKeepIInv DEF ReserveCopy
<1>3. ASSUME NEW c \in Copies, FreeCopy(c) PROVE IInv'
  BY <1>1, <1>3, LoansAreKept, CopiesKeepIInv DEF FreeCopy
<1>4. ASSUME NEW c \in Copies, DisposeCopy(c) PROVE IInv'
  <2>1. \A l \in LoanIds : pins[l] \ {c} = pins[l]
    BY <1>4 DEF DisposeCopy, MayDispose, Lent
  <2>2. pins' = pins
    BY <1>1, <1>4, <2>1 DEF DisposeCopy
  <2>3. place' \in [Copies -> Places]
    BY <1>1, <1>4 DEF DisposeCopy, Places
  <2> QED
    BY <1>1, <1>4, <2>2, <2>3, LoansAreKept, CopiesKeepIInv DEF DisposeCopy
<1>5. ASSUME NEW c \in Copies, NEW to \in {"own", "group"} \cup Friends, MoveCopy(c, to)
      PROVE  IInv'
  <2>1. place' \in [Copies -> Places]
    BY <1>1, <1>5 DEF MoveCopy, Places
  <2> QED
    BY <1>1, <1>5, <2>1, LoansAreKept, CopiesKeepIInv DEF MoveCopy
<1>6. CASE DeleteGroup
  BY <1>6, LoansAreKept, CopiesGoKeepsIInv DEF DeleteGroup
<1> QED
  BY <1>2, <1>3, <1>4, <1>5, <1>6 DEF CopyStep

LEMMA DeleteAccountKeepsIInv ==
  ASSUME IInv, NEW b \in Friends, DeleteAccount(b)
  PROVE  IInv'
<1>1. /\ loans' \in [LoanIds -> Rows] /\ friends' \subseteq Friends
      /\ \A l \in LoanIds : /\ loans'[l].status = loans[l].status
                            /\ loans'[l].quantity = loans[l].quantity
                            /\ loans'[l].returned = loans[l].returned
                            /\ loans'[l].declared = loans[l].declared
  BY DEF DeleteAccount, IInv, TypeOK, Rows
<1>2. asked' \in [Requests -> Asks] /\ \A p \in Requests : asked'[p] = asked[p]
  BY DEF DeleteAccount, IInv, TypeOK
<1>3. CopiesGo(At(b)) /\ reserved' \subseteq reserved
  BY DEF DeleteAccount
<1> QED
  BY <1>1, <1>2, <1>3, CopiesGoKeepsIInv

LEMMA ResetDeletesKeepsIInv ==
  ASSUME IInv, NEW p \in Requests, ResetDeletes(p)
  PROVE  IInv'
<1>1. Idle \in Asks /\ Idle.step = "idle"
  BY DEF Idle, Asks
<1>2. /\ asked' \in [Requests -> Asks]
      /\ \A q \in Requests : asked'[q] = asked[q] \/ asked'[q].step = "idle"
  BY <1>1 DEF ResetDeletes, IInv, TypeOK
<1>3. /\ loans' \in [LoanIds -> Rows] /\ friends' \subseteq Friends
      /\ \A l \in LoanIds : loans'[l] = loans[l]
  BY DEF ResetDeletes, IInv, TypeOK
<1>4. CopiesGo(At(asked[p].home)) /\ reserved' \subseteq reserved
  BY DEF ResetDeletes
<1> QED
  BY <1>2, <1>3, <1>4, CopiesGoKeepsIInv

-----------------------------------------------------------------------------
(* Requests that read before they write *)

(* Steps by which a request goes on and nothing else changes.              *)
LEMMA AskingKeepsIInv ==
  ASSUME IInv, NEW p \in Requests, NEW ask \in Asks,
         asked' = [asked EXCEPT ![p] = ask],
         UNCHANGED <<loans, pins, place, reserved, friends, short>>,
         ask.step = "lend" => ask.count \in 1..MaxQuantity,
         ask.step \in {"reopen", "repin"} => ask.loan \in LoanIds /\ ask.count > 0,
         ask.step = "repin" => /\ loans[ask.loan].declared = ask.count
                               /\ \A q \in Requests \ {p} :
                                    asked[q].step = "repin" => asked[q].loan # ask.loan
  PROVE  IInv'
<1> USE DEF IInv
<1>1. asked' \in [Requests -> Asks] /\ asked'[p] = ask
      /\ \A q \in Requests \ {p} : asked'[q] = asked[q]
  BY DEF TypeOK
<1>2. TypeOK'
  BY <1>1 DEF TypeOK
<1>3. PinsAreOut' /\ OutIsPinned' /\ EachCopyOnce' /\ DeclaredIsOpen'
  BY DEF PinsAreOut, OutIsPinned, EachCopyOnce, DeclaredIsOpen, Lent, Outstanding
<1>4. AsksAreSound'
  BY <1>1 DEF AsksAreSound
<1> QED
  BY <1>2, <1>3, <1>4

LEMMA RefusalsKeepIInv ==
  ASSUME IInv, NEW p \in Requests,
         CreateRefused(p) \/ ReopenRefused(p) \/ ReopenRollsBack(p)
  PROVE  IInv'
<1>1. Idle \in Asks /\ Idle.step = "idle"
  BY DEF Idle, Asks
<1>2. Refuse(p)
  BY DEF CreateRefused, ReopenRefused, ReopenRollsBack
<1> QED
  BY <1>1, <1>2, AskingKeepsIInv DEF Refuse

LEMMA CreateReadsKeepsIInv ==
  ASSUME IInv, NEW p \in Requests, NEW n \in 1..MaxQuantity, NEW b \in Friends \cup {Named},
         CreateReads(p, n, b)
  PROVE  IInv'
<1> DEFINE ask == [Idle EXCEPT !.step = "lend", !.count = n, !.borrower = b, !.found = Unclaimed]
<1>1. n \in Nat
  BY LoansAssumption DEF LoansAssumption
<1>2. ask \in Asks /\ ask.step = "lend" /\ ask.count = n
  BY <1>1 DEF Idle, Asks, Unclaimed
<1> HIDE DEF ask
<1>3. /\ asked' = [asked EXCEPT ![p] = ask]
      /\ UNCHANGED <<loans, pins, place, reserved, friends, short>>
  BY DEF CreateReads, ask
<1> QED
  BY <1>2, <1>3, AskingKeepsIInv

LEMMA ResetReadsKeepsIInv ==
  ASSUME IInv, NEW p \in Requests, NEW home \in {"own"} \cup Friends, ResetReads(p, home)
  PROVE  IInv'
<1> DEFINE ask == [Idle EXCEPT !.step = "reset", !.home = home, !.found = At(home)]
<1>1. ask \in Asks /\ ask.step = "reset"
  BY DEF Idle, Asks, At
<1> HIDE DEF ask
<1>2. /\ asked' = [asked EXCEPT ![p] = ask]
      /\ UNCHANGED <<loans, pins, place, reserved, friends, short>>
  BY DEF ResetReads, ask
<1> QED
  BY <1>1, <1>2, AskingKeepsIInv

LEMMA ReopenReadsKeepsIInv ==
  ASSUME IInv, NEW p \in Requests, NEW l \in LoanIds, ReopenReads(p, l)
  PROVE  IInv'
<1> DEFINE ask == [Idle EXCEPT !.step = "reopen", !.loan = l, !.count = loans[l].declared]
<1>1. loans[l].declared \in Nat /\ loans[l].declared > 0
  BY RowsAreSound DEF RowIsSound, Rows, ReopenReads
<1>2. ask \in Asks /\ ask.step = "reopen" /\ ask.loan = l /\ ask.count = loans[l].declared
  BY <1>1 DEF Idle, Asks
<1> HIDE DEF ask
<1>3. /\ asked' = [asked EXCEPT ![p] = ask]
      /\ UNCHANGED <<loans, pins, place, reserved, friends, short>>
  BY DEF ReopenReads, ask
<1> QED
  BY <1>1, <1>2, <1>3, AskingKeepsIInv

LEMMA ReopenUpdatesKeepsIInv ==
  ASSUME IInv, NEW p \in Requests, ReopenUpdates(p)
  PROVE  IInv'
<1> DEFINE ask == [asked[p] EXCEPT !.step = "repin", !.found = Unclaimed]
<1>1. asked[p] \in Asks /\ asked[p].step = "reopen"
      /\ asked[p].loan \in LoanIds /\ asked[p].count > 0
  BY DEF IInv, TypeOK, AsksAreSound, ReopenUpdates
<1>2. /\ ask \in Asks /\ ask.step = "repin"
      /\ ask.loan = asked[p].loan /\ ask.count = asked[p].count
  BY <1>1 DEF Asks, Unclaimed
<1>3. asked' = [asked EXCEPT ![p] = ask]
  BY DEF ReopenUpdates, IInv, TypeOK
<1> HIDE DEF ask
<1>4. /\ loans[ask.loan].declared = ask.count
      /\ \A q \in Requests : asked[q].step = "repin" => asked[q].loan # ask.loan
  BY <1>2 DEF ReopenUpdates, MayUndo, Locked
<1>5. UNCHANGED <<loans, pins, place, reserved, friends, short>>
  BY DEF ReopenUpdates
<1> QED
  BY <1>1, <1>2, <1>3, <1>4, <1>5, AskingKeepsIInv

(* New pins on one loan, whose request is then over.                       *)
LEMMA PinningKeepsIInv ==
  ASSUME IInv, NEW p \in Requests, NEW l \in LoanIds, NEW row,
         NEW P \in SUBSET Copies, P \cap Lent = {}, P \cap reserved = {},
         asked' = [asked EXCEPT ![p] = Idle],
         \A q \in Requests \ {p} : asked[q].step = "repin" => asked[q].loan # l,
         loans' = [loans EXCEPT ![l] = row], RowIsSound(row),
         pins' = [pins EXCEPT ![l] = pins[l] \cup P],
         Cardinality(pins[l]) + Cardinality(P)
           <= IF row.status = "active" THEN Outstanding(row) ELSE 0,
         row.status = "active" /\ l \notin short' =>
           Cardinality(pins[l]) + Cardinality(P) >= Outstanding(row),
         short \subseteq short', short' \in SUBSET LoanIds,
         UNCHANGED <<place, reserved, friends>>
  PROVE  IInv'
<1> USE DEF IInv
<1>1. /\ loans' \in [LoanIds -> Rows] /\ loans'[l] = row
      /\ \A k \in LoanIds \ {l} : loans'[k] = loans[k]
  BY DEF TypeOK, RowIsSound
<1>2. /\ pins'[l] = pins[l] \cup P /\ \A k \in LoanIds \ {l} : pins'[k] = pins[k]
  BY OthersPinsStay
<1>3. Cardinality(pins'[l]) = Cardinality(pins[l]) + Cardinality(P)
  <2>1. pins[l] \cap P = {} /\ pins[l] \in SUBSET Copies
    BY DEF Lent, TypeOK
  <2> QED
    BY <1>2, <2>1, MorePins
<1>4. Idle \in Asks /\ Idle.step = "idle"
  BY DEF Idle, Asks
<1>5. /\ asked' \in [Requests -> Asks] /\ asked'[p].step = "idle"
      /\ \A q \in Requests \ {p} : asked'[q] = asked[q]
  BY <1>4 DEF TypeOK
<1>6. TypeOK'
  BY <1>1, <1>2, <1>5 DEF TypeOK, RowIsSound
<1>7. PinsAreOut'
  <2> SUFFICES ASSUME NEW k \in LoanIds
               PROVE  Cardinality(pins'[k]) <= IF loans'[k].status = "active"
                                               THEN Outstanding(loans'[k]) ELSE 0
    BY DEF PinsAreOut, Outstanding
  <2>1. CASE k = l
    BY <1>1, <1>3, <2>1
  <2>2. CASE k # l
    <3>1. Cardinality(pins[k]) <= IF loans[k].status = "active"
                                  THEN Outstanding(loans[k]) ELSE 0
      BY DEF PinsAreOut
    <3> QED
      BY <1>1, <1>2, <2>2, <3>1
  <2> QED
    BY <2>1, <2>2
<1>8. OutIsPinned'
  BY <1>1, <1>2, <1>3 DEF OutIsPinned, Outstanding
<1>9. EachCopyOnce'
  BY <1>2 DEF EachCopyOnce, Lent
<1>10. AsksAreSound'
  BY <1>1, <1>5 DEF AsksAreSound
<1>11. DeclaredIsOpen'
  BY <1>1 DEF DeclaredIsOpen, RowIsSound
<1> QED
  BY <1>6, <1>7, <1>8, <1>9, <1>10, <1>11

LEMMA CreatePinsKeepsIInv ==
  ASSUME IInv, NEW p \in Requests, CreatePins(p)
  PROVE  IInv'
<1> DEFINE ask == asked[p]
           available == Available(ask.found)
<1>1. /\ ask \in Asks /\ ask.step = "lend" /\ ask.count \in Nat /\ ask.count > 0
      /\ ask.borrower \in Friends \cup {Named}
  BY LoansAssumption DEF IInv, TypeOK, AsksAreSound, CreatePins, Asks, LoansAssumption
<1>2. PICK l \in LoanIds, P \in SUBSET available :
        /\ loans[l] = Absent /\ Cardinality(P) = ask.count /\ P \cap Lent = {}
        /\ loans' = [loans EXCEPT ![l] = Row("active", ask.count, ask.borrower)]
        /\ pins' = [pins EXCEPT ![l] = P]
  BY DEF CreatePins
<1> DEFINE row == Row("active", ask.count, ask.borrower)
<1>3. RowIsSound(row) /\ row.status = "active" /\ Outstanding(row) = ask.count
  BY <1>1 DEF RowIsSound, Row, Rows, Outstanding
<1>4. pins[l] = {} /\ Cardinality(pins[l]) = 0
  <2>1. Cardinality(pins[l]) <= 0 /\ pins[l] \in SUBSET Copies
    BY <1>2 DEF IInv, PinsAreOut, TypeOK, Absent, Row
  <2> QED
    BY <2>1, PinsAreFinite, FS_EmptySet
<1>5. pins' = [pins EXCEPT ![l] = pins[l] \cup P]
  BY <1>2, <1>4
<1>6. P \in SUBSET Copies /\ P \cap reserved = {}
  BY <1>1 DEF Available, Existing, At
<1>7. \A q \in Requests \ {p} : asked[q].step = "repin" => asked[q].loan # l
  BY <1>2 DEF IInv, AsksAreSound, Absent, Row
<1>8. asked' = [asked EXCEPT ![p] = Idle] /\ UNCHANGED <<place, reserved, friends, short>>
  BY DEF CreatePins
<1>9. Cardinality(pins[l]) + Cardinality(P) = Outstanding(row)
  BY <1>1, <1>2, <1>3, <1>4
<1>10. Outstanding(row) \in Nat /\ short \in SUBSET LoanIds
  BY <1>1, <1>3 DEF IInv, TypeOK
<1>11. loans' = [loans EXCEPT ![l] = row]
  BY <1>2
<1> HIDE DEF row, ask, available
<1>12. /\ Cardinality(pins[l]) + Cardinality(P) <=
            IF row.status = "active" THEN Outstanding(row) ELSE 0
       /\ Cardinality(pins[l]) + Cardinality(P) >= Outstanding(row)
  BY <1>3, <1>9, <1>10
<1>13. short \subseteq short' /\ short' \in SUBSET LoanIds /\ UNCHANGED <<place, reserved, friends>>
  BY <1>8, <1>10
<1>14. P \cap Lent = {} /\ asked' = [asked EXCEPT ![p] = Idle]
  BY <1>2, <1>8
<1> QED
  BY <1>3, <1>5, <1>6, <1>7, <1>11, <1>12, <1>13, <1>14, PinningKeepsIInv

LEMMA ReopenPinsKeepsIInv ==
  ASSUME IInv, NEW p \in Requests, ReopenPins(p)
  PROVE  IInv'
<1> DEFINE ask == asked[p]
           l   == ask.loan
           available == Available(ask.found)
<1>1. /\ ask \in Asks /\ ask.step = "repin" /\ l \in LoanIds /\ ask.count \in Nat
      /\ ask.count > 0 /\ loans[l].declared = ask.count
  BY DEF IInv, TypeOK, AsksAreSound, ReopenPins, Asks
<1>2. PICK P \in SUBSET available :
        /\ Cardinality(P) = Min2(ask.count, Cardinality(available))
        /\ P \cap Lent = {}
        /\ pins' = [pins EXCEPT ![l] = @ \cup P]
        /\ short' = IF Cardinality(P) < ask.count THEN short \cup {l} ELSE short
  BY DEF ReopenPins
<1> DEFINE row == [loans[l] EXCEPT !.returned = @ - ask.count, !.declared = 0,
                                   !.status = "active"]
<1>3. RowIsSound(loans[l])
  BY <1>1, RowsAreSound
<1>4. /\ row.quantity = loans[l].quantity /\ row.returned = loans[l].returned - ask.count
      /\ row.declared = 0 /\ row.status = "active"
      /\ loans[l].returned - ask.count \in Nat
  BY <1>1, <1>3 DEF RowIsSound, Rows
<1>5. row \in Rows
  BY <1>3, <1>4 DEF RowIsSound, Rows
<1>6. loans' = [loans EXCEPT ![l] = row]
  BY <1>1 DEF ReopenPins, IInv, TypeOK
<1>7. RowIsSound(row) /\ Outstanding(row) = Outstanding(loans[l]) + ask.count
  BY <1>1, <1>3, <1>4, <1>5 DEF RowIsSound, Rows, Outstanding
<1>8. /\ P \in SUBSET Copies /\ P \cap reserved = {} /\ available \in SUBSET Copies
      /\ Cardinality(P) \in Nat /\ Cardinality(available) \in Nat /\ pins[l] \in SUBSET Copies
      /\ Cardinality(pins[l]) \in Nat /\ Outstanding(loans[l]) \in Nat
  <2>1. available \in SUBSET Copies /\ P \cap reserved = {}
    BY <1>1 DEF Available, Existing, At
  <2> HIDE DEF available
  <2> QED
    BY <1>1, <2>1, PinsAreFinite, RowsAreSound
<1>9. Cardinality(P) <= ask.count
  BY <1>1, <1>2, <1>8 DEF Min2
<1>10. Cardinality(pins[l]) <= Outstanding(loans[l])
  BY <1>1, <1>8 DEF IInv, PinsAreOut
<1>11. l \notin short => Cardinality(pins[l]) >= Outstanding(loans[l])
  <2>1. CASE loans[l].status = "active"
    BY <1>1, <2>1 DEF IInv, OutIsPinned
  <2>2. CASE loans[l].status # "active"
    <3>1. loans[l].status = "returned"
      BY <1>1, <1>3, <2>2 DEF RowIsSound
    <3> QED
      BY <1>3, <1>8, <3>1 DEF RowIsSound, Rows, Outstanding
  <2> QED
    BY <2>1, <2>2
<1>12. \A q \in Requests \ {p} : asked[q].step = "repin" => asked[q].loan # l
  BY <1>1 DEF IInv, AsksAreSound
<1>13. asked' = [asked EXCEPT ![p] = Idle] /\ UNCHANGED <<place, reserved, friends>>
  BY DEF ReopenPins
<1>14. /\ short \subseteq short' /\ short' \in SUBSET LoanIds
       /\ l \notin short' => l \notin short /\ Cardinality(P) >= ask.count
  BY <1>1, <1>2, <1>8 DEF IInv, TypeOK
<1> HIDE DEF row, available, l, ask
<1>15. Cardinality(pins[l]) + Cardinality(P) <= Outstanding(row)
  BY <1>1, <1>7, <1>8, <1>9, <1>10
<1>16. l \notin short' => Cardinality(pins[l]) + Cardinality(P) >= Outstanding(row)
  BY <1>1, <1>7, <1>8, <1>9, <1>11, <1>14
<1> QED
  BY <1>1, <1>2, <1>4, <1>6, <1>7, <1>8, <1>12, <1>13, <1>14, <1>15, <1>16, PinningKeepsIInv

-----------------------------------------------------------------------------
(* The theorems *)

LEMMA NextKeepsIInv == ASSUME IInv, [Next]_vars PROVE IInv'
<1>1. ASSUME NEW p \in Requests, Request(p) PROVE IInv'
  BY <1>1, RefusalsKeepIInv, CreateReadsKeepsIInv, CreatePinsKeepsIInv, ReopenReadsKeepsIInv,
     ReopenUpdatesKeepsIInv, ReopenPinsKeepsIInv, ResetReadsKeepsIInv, ResetDeletesKeepsIInv
  DEF Request
<1>2. ASSUME NEW l \in LoanIds, Lender(l) PROVE IInv'
  BY <1>2, ReturnLoanCopiesKeepsIInv, ConfirmBorrowerReturnKeepsIInv, WriteOffsKeepIInv,
     DeleteLoanKeepsIInv DEF Lender
<1>3. ASSUME NEW l \in LoanIds, Borrower(l) PROVE IInv'
  BY <1>3, DeclareLoanReturnKeepsIInv, AnswerKeepsIInv DEF Borrower, AcknowledgeLoan, RejectLoan
<1>4. ASSUME NEW b \in Friends, DeleteAccount(b) PROVE IInv'
  BY <1>4, DeleteAccountKeepsIInv
<1>5. CASE CopyStep
  BY <1>5, CopyStepKeepsIInv
<1>6. CASE UNCHANGED vars
  BY <1>6 DEF vars, IInv, TypeOK, PinsAreOut, OutIsPinned, EachCopyOnce, AsksAreSound,
              DeclaredIsOpen, Lent, Outstanding
<1> QED
  BY <1>1, <1>2, <1>3, <1>4, <1>5, <1>6 DEF Next

THEOREM LoansInvariant == Spec => []IInv
<1>1. IInv /\ [Next]_vars => IInv'
  BY NextKeepsIInv
<1> QED
  BY <1>1, InitIInv, PTL DEF Spec

(* Every state has the declared types, and every row of loans keeps the    *)
(* CHECK constraints of its table, which the services rely on guards for.  *)
THEOREM RowsKeepTheirConstraints == Spec => []TypeOK
BY LoansInvariant, PTL DEF IInv

(* No copy stays locked away by a loan that does not have it out.          *)
THEOREM NoPinOutlivesItsLoan == Spec => []PinsAreOut
BY LoansInvariant, PTL DEF IInv

(* Every copy that is out is pinned, unless a reopening found too few, or  *)
(* the copy was moved away and deleted with the collection it was in, by   *)
(* the end of a group or an account or by a reset that had not listed it.  *)
THEOREM CopiesOutArePinned == Spec => []OutIsPinned
BY LoansInvariant, PTL DEF IInv

(* No copy is on two loans, or on a loan and promised to a trade.          *)
THEOREM NoCopyIsLentTwice == Spec => []EachCopyOnce
BY LoansInvariant, PTL DEF IInv
-----------------------------------------------------------------------------
(* The services implement the ledger *)

LEMMA InitIsEmptyLedger == Init => Ledger!Init
BY DEF Init, Ledger!Init, Ledger!Entry, Accounts, Account, Stage, Absent, Row, Outstanding

(* A step that changes one row is a step of that loan's account.           *)
LEMMA OneAccountChanges ==
  ASSUME IInv, NEW l \in LoanIds, NEW row, loans' = [loans EXCEPT ![l] = row],
         Ledger!Changed(Account(loans[l]), Account(row))
  PROVE  Ledger!Next
<1>1. loans'[l] = row /\ \A k \in LoanIds \ {l} : loans'[k] = loans[k]
  BY DEF IInv, TypeOK
<1>2. Accounts'[l] = Account(row) /\ Accounts[l] = Account(loans[l])
  BY <1>1 DEF Accounts, Account, Outstanding
<1>3. Accounts' = [Accounts EXCEPT ![l] = Accounts'[l]]
  <2>1. \A k \in LoanIds : Account(loans[k])' = IF k = l THEN Account(row) ELSE Account(loans[k])
    BY <1>1 DEF Account, Outstanding
  <2> QED
    BY <1>2, <2>1 DEF Accounts
<1> QED
  BY <1>2, <1>3 DEF Ledger!Next

LEMMA RowsThatKeepTheirCounts ==
  ASSUME IInv,
         \A l \in LoanIds : /\ loans'[l].status = loans[l].status
                            /\ loans'[l].quantity = loans[l].quantity
                            /\ loans'[l].returned = loans[l].returned
                            /\ loans'[l].declared = loans[l].declared
  PROVE  UNCHANGED Accounts
BY DEF Accounts, Account, Outstanding

LEMMA StepIsLedgerStep == ASSUME IInv, Next PROVE [Ledger!Next]_Accounts
<1> USE DEF Account, Stage, Outstanding, Ledger!Entry
<1>1. ASSUME NEW p \in Requests, CreatePins(p) PROVE Ledger!Next
  <2>1. PICK l \in LoanIds :
          /\ loans[l] = Absent
          /\ loans' = [loans EXCEPT ![l] = Row("active", asked[p].count, asked[p].borrower)]
    BY <1>1 DEF CreatePins
  <2>2. asked[p].count \in 1..MaxQuantity
    BY <1>1 DEF IInv, AsksAreSound, CreatePins
  <2>3. Ledger!Lend(Account(loans[l]), Account(Row("active", asked[p].count, asked[p].borrower)))
    BY <2>1, <2>2, LoansAssumption DEF Ledger!Lend, Absent, Row, LoansAssumption
  <2> QED
    BY <2>1, <2>3, OneAccountChanges DEF Ledger!Changed
<1>2. ASSUME NEW p \in Requests, ReopenPins(p) PROVE Ledger!Next
  <2> DEFINE l   == asked[p].loan
             row == [loans[l] EXCEPT !.returned = @ - asked[p].count, !.declared = 0,
                                     !.status = "active"]
  <2>1. /\ l \in LoanIds /\ loans[l].declared = asked[p].count /\ asked[p].count > 0
        /\ loans' = [loans EXCEPT ![l] = row]
    BY <1>2 DEF IInv, TypeOK, AsksAreSound, ReopenPins
  <2>2. RowIsSound(loans[l])
    BY <2>1, RowsAreSound
  <2>3. Ledger!Dispute(Account(loans[l]), Account(row)) /\ Account(loans[l]).stage = "open"
    BY <2>1, <2>2 DEF Ledger!Dispute, RowIsSound, Rows
  <2> HIDE DEF row
  <2> QED
    BY <2>1, <2>3, OneAccountChanges DEF Ledger!Changed
<1>3. ASSUME NEW l \in LoanIds, NEW n \in 1..MaxQuantity, ReturnLoanCopies(l, n)
      PROVE  Ledger!Next
  <2> DEFINE row == BroughtBack(loans[l], n, 0)
  <2>1. RowIsSound(loans[l]) /\ loans[l].status = "active" /\ n <= Outstanding(loans[l])
        /\ n \in Nat /\ n > 0 /\ loans' = [loans EXCEPT ![l] = row]
    BY <1>3, RowsAreSound, LoansAssumption DEF ReturnLoanCopies, Update, LoansAssumption
  <2>2. /\ row.quantity = loans[l].quantity /\ row.returned = loans[l].returned + n
        /\ row.declared = 0 /\ row.status \in {"active", "returned"}
    BY <2>1 DEF RowIsSound, Rows, BroughtBack
  <2> HIDE DEF row
  <2>3. n \in 1..Account(loans[l]).out /\ Account(loans[l]).stage = "open"
    BY <2>1 DEF RowIsSound, Rows
  <2>4. Ledger!TakeBack(Account(loans[l]), Account(row))
    BY <2>1, <2>2, <2>3 DEF Ledger!TakeBack, RowIsSound, Rows
  <2> QED
    BY <2>1, <2>3, <2>4, OneAccountChanges DEF Ledger!Changed
<1>4. ASSUME NEW l \in LoanIds, NEW n \in 1..MaxQuantity, DeclareLoanReturn(l, n)
      PROVE  Ledger!Next
  <2> DEFINE row == BroughtBack(loans[l], n, loans[l].declared + n)
  <2>1. RowIsSound(loans[l]) /\ loans[l].status = "active" /\ n <= Outstanding(loans[l])
        /\ n \in Nat /\ n > 0 /\ loans' = [loans EXCEPT ![l] = row]
    BY <1>4, RowsAreSound, LoansAssumption DEF DeclareLoanReturn, Update, LoansAssumption
  <2>2. /\ row.quantity = loans[l].quantity /\ row.returned = loans[l].returned + n
        /\ row.declared = loans[l].declared + n /\ row.status \in {"active", "returned"}
    BY <2>1 DEF RowIsSound, Rows, BroughtBack
  <2> HIDE DEF row
  <2>3. n \in 1..Account(loans[l]).out /\ Account(loans[l]).stage = "open"
    BY <2>1 DEF RowIsSound, Rows
  <2>4. Ledger!Declare(Account(loans[l]), Account(row))
    BY <2>1, <2>2, <2>3 DEF Ledger!Declare, RowIsSound, Rows
  <2> QED
    BY <2>1, <2>3, <2>4, OneAccountChanges DEF Ledger!Changed
<1>5. ASSUME NEW l \in LoanIds, ConfirmBorrowerReturn(l) PROVE Ledger!Next
  <2> DEFINE row == [loans[l] EXCEPT !.declared = 0]
  <2>1. RowIsSound(loans[l]) /\ loans[l].declared > 0 /\ loans' = [loans EXCEPT ![l] = row]
    BY <1>5, RowsAreSound DEF ConfirmBorrowerReturn, Update
  <2>2. Ledger!Agree(Account(loans[l]), Account(row)) /\ Account(loans[l]).stage = "open"
    BY <2>1 DEF Ledger!Agree, RowIsSound, Rows
  <2> HIDE DEF row
  <2> QED
    BY <2>1, <2>2, OneAccountChanges DEF Ledger!Changed
<1>6. ASSUME NEW l \in LoanIds, WriteOffLoan(l) \/ WriteOffAndRemove(l) PROVE Ledger!Next
  <2>1. /\ RowIsSound(loans[l]) /\ loans[l].status = "active"
        /\ loans' = [loans EXCEPT ![l] = WrittenOff(loans[l])]
    BY <1>6, RowsAreSound DEF WriteOffLoan, WriteOffAndRemove, Update
  <2>2. /\ Ledger!GiveUp(Account(loans[l]), Account(WrittenOff(loans[l])))
        /\ Account(loans[l]).stage = "open"
    BY <2>1 DEF Ledger!GiveUp, RowIsSound, Rows, WrittenOff
  <2> QED
    BY <2>1, <2>2, OneAccountChanges DEF Ledger!Changed
<1>7. ASSUME NEW l \in LoanIds, DeleteLoan(l) PROVE Ledger!Next
  <2>1. Ledger!Forget(Account(loans[l]), Account(Deleted))
    BY <1>7 DEF Ledger!Forget, DeleteLoan, Exists, Deleted, Row
  <2> QED
    BY <1>7, <2>1, OneAccountChanges DEF Ledger!Changed, DeleteLoan, Update
<1>8. ASSUME NEW l \in LoanIds, NEW b \in BOOLEAN, Answer(l, b) PROVE UNCHANGED Accounts
  <2>1. loans' = [loans EXCEPT ![l] = [loans[l] EXCEPT !.acknowledged = b]]
    BY <1>8 DEF Answer, Update
  <2> QED
    BY <2>1, RowsThatKeepTheirCounts DEF IInv, TypeOK, Rows
<1>9. ASSUME NEW b \in Friends, DeleteAccount(b) PROVE UNCHANGED Accounts
  BY <1>9, RowsThatKeepTheirCounts DEF DeleteAccount, IInv, TypeOK, Rows
<1>10. ASSUME UNCHANGED loans PROVE UNCHANGED Accounts
  BY <1>10 DEF Accounts
<1>11. CASE CopyStep
  BY <1>10, <1>11 DEF CopyStep, ReserveCopy, FreeCopy, DisposeCopy, MoveCopy, DeleteGroup, KeepLoans
<1>12. ASSUME NEW p \in Requests, Request(p) PROVE [Ledger!Next]_Accounts
  BY <1>1, <1>2, <1>10, <1>12 DEF Request, CreateReads, CreateRefused, ReopenReads,
     ReopenUpdates, ReopenRefused, ReopenRollsBack, ResetReads, ResetDeletes, Refuse
<1>13. ASSUME NEW l \in LoanIds, Lender(l) \/ Borrower(l) PROVE [Ledger!Next]_Accounts
  BY <1>3, <1>4, <1>5, <1>6, <1>7, <1>8, <1>13 DEF Lender, Borrower, AcknowledgeLoan, RejectLoan
<1> QED
  BY <1>9, <1>11, <1>12, <1>13 DEF Next

(* Every step of the services is a step of the ledger or leaves it alone,  *)
(* for any number of loans, copies and requests in progress: whatever was  *)
(* read before a review, another declaration or a write-off, nothing is    *)
(* undone against the lender's word and no loan that was given up returns. *)
THEOREM LoansImplementLedger == Spec => ImplementsLedger
<1>1. IInv /\ [Next]_vars => [Ledger!Next]_Accounts
  BY StepIsLedgerStep DEF vars, Accounts
<1> QED
  BY <1>1, InitIsEmptyLedger, LoansInvariant, PTL DEF Spec, ImplementsLedger, Ledger!Spec

-----------------------------------------------------------------------------
(* What the ledger promises, and with it the services *)

LEMMA LedgerChangeIsSound ==
  ASSUME NEW d \in Ledger!Entries, NEW e, Ledger!Changed(d, e)
  PROVE  e \in Ledger!Entries /\ Ledger!Sound(d, e)
<1> USE DEF Ledger!Entries, Ledger!Entry, Ledger!Sound, Ledger!Size
<1>1. CASE Ledger!Lend(d, e)
  BY <1>1 DEF Ledger!Lend
<1>2. CASE Ledger!Forget(d, e)
  BY <1>2 DEF Ledger!Forget
<1>3. ASSUME d.stage = "open", Ledger!TakeBack(d, e)
      PROVE  e \in Ledger!Entries /\ Ledger!Sound(d, e)
  BY <1>3 DEF Ledger!TakeBack
<1>4. ASSUME d.stage = "open", Ledger!Declare(d, e) PROVE e \in Ledger!Entries /\ Ledger!Sound(d, e)
  BY <1>4 DEF Ledger!Declare
<1>5. ASSUME d.stage = "open", Ledger!Agree(d, e) PROVE e \in Ledger!Entries /\ Ledger!Sound(d, e)
  BY <1>5 DEF Ledger!Agree
<1>6. ASSUME d.stage = "open", Ledger!Dispute(d, e) PROVE e \in Ledger!Entries /\ Ledger!Sound(d, e)
  BY <1>6 DEF Ledger!Dispute
<1>7. ASSUME d.stage = "open", Ledger!GiveUp(d, e) PROVE e \in Ledger!Entries /\ Ledger!Sound(d, e)
  BY <1>7 DEF Ledger!GiveUp
<1> QED
  BY <1>1, <1>2, <1>3, <1>4, <1>5, <1>6, <1>7 DEF Ledger!Changed

LEMMA LedgerStepIsSound ==
  ASSUME Ledger!TypeOK, [Ledger!Next]_Accounts
  PROVE  /\ Ledger!TypeOK'
         /\ \A l \in LoanIds : Ledger!Sound(Accounts[l], Accounts'[l])
<1>1. CASE UNCHANGED Accounts
  BY <1>1 DEF Ledger!TypeOK, Ledger!Entries, Ledger!Sound, Ledger!Size
<1>2. ASSUME NEW l \in LoanIds, Ledger!Changed(Accounts[l], Accounts'[l]),
             Accounts' = [Accounts EXCEPT ![l] = Accounts'[l]]
      PROVE  /\ Ledger!TypeOK'
             /\ \A k \in LoanIds : Ledger!Sound(Accounts[k], Accounts'[k])
  <2>1. Accounts'[l] \in Ledger!Entries /\ Ledger!Sound(Accounts[l], Accounts'[l])
    BY <1>2, LedgerChangeIsSound DEF Ledger!TypeOK
  <2>2. ASSUME NEW k \in LoanIds \ {l} PROVE Accounts'[k] = Accounts[k]
    BY <1>2, <2>2 DEF Ledger!TypeOK
  <2>3. \A k \in LoanIds : Accounts'[k] \in Ledger!Entries
    BY <2>1, <2>2 DEF Ledger!TypeOK
  <2>4. Ledger!TypeOK'
    BY <1>2, <2>3 DEF Ledger!TypeOK
  <2>5. ASSUME NEW k \in LoanIds \ {l} PROVE Ledger!Sound(Accounts[k], Accounts'[k])
    BY <2>2, <2>5 DEF Ledger!TypeOK, Ledger!Entries, Ledger!Sound, Ledger!Size
  <2> QED
    BY <2>1, <2>4, <2>5
<1> QED
  BY <1>1, <1>2 DEF Ledger!Next

(* For any number of loans of any size, no step of the ledger loses a copy *)
(* that was lent, counts one twice, or takes back the lender's word.       *)
THEOREM LedgerLosesNothing == Ledger!Spec => Ledger!NothingIsLost
<1>1. Ledger!Init => Ledger!TypeOK
  BY DEF Ledger!Init, Ledger!TypeOK, Ledger!Entries, Ledger!Entry
<1>2. Ledger!TypeOK /\ [Ledger!Next]_Accounts => Ledger!TypeOK'
  BY LedgerStepIsSound
<1>3. Ledger!TypeOK /\ [Ledger!Next]_Accounts
        => [\A l \in LoanIds : Ledger!Sound(Accounts[l], Accounts'[l])]_Accounts
  BY LedgerStepIsSound
<1> QED
  BY <1>1, <1>2, <1>3, PTL DEF Ledger!Spec, Ledger!NothingIsLost

(* So nothing the loan services do, in any order, loses a copy that was    *)
(* lent or counts it twice, takes a copy the lender agreed is back out     *)
(* again, or revives a loan that was written off or deleted.               *)
THEOREM ServicesLoseNothing == Spec => Ledger!NothingIsLost
BY LoansImplementLedger, LedgerLosesNothing DEF ImplementsLedger
=============================================================================
