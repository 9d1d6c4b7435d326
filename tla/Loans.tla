------------------------------- MODULE Loans -------------------------------
(***************************************************************************)
(* The loans one lender makes of copies of one printing (services/loans.ts *)
(* and repositories/loans.ts): the ledger row, the pins that keep a lent   *)
(* copy from being promised or disposed of, and the borrower's declared    *)
(* returns that wait for the lender's review.                              *)
(*                                                                         *)
(* Every operation updates the loan row with one guarded statement and     *)
(* keeps that row locked to its end, so most of them are one step.  Three  *)
(* read first and act on what they read: createLoan lists the free copies  *)
(* before it locks them, reopening a declared return reads the count, then *)
(* updates the loan, and lists and pins copies after that, and resetting   *)
(* an account's collections checks the copies it lists and deletes those   *)
(* that are there by then.  The end of the lender's own account, which     *)
(* takes the loans with it, is the end of this module.                     *)
(***************************************************************************)
EXTENDS Integers, FiniteSets

CONSTANTS
  LoanIds, Copies,
  Friends,       \* accounts that share a group with the lender
  Named,         \* a borrower without an account, known by a name
  Requests,      \* requests in progress that have read and not yet written
  MaxQuantity    \* bound on the copies of one loan

ASSUME LoansAssumption ==
  /\ IsFiniteSet(Copies) /\ Named \notin Friends
  /\ Friends \cap {"own", "group", "gone"} = {}
  /\ MaxQuantity \in Nat \ {0}

VARIABLES
  loans,      \* the rows of loans
  pins,       \* loan_copies
  place,      \* whose collection a copy is in: the lender's own, a group's, a friend's
  reserved,   \* copies a trade has promised
  friends,    \* the accounts among Friends that still exist
  asked,      \* the requests in progress
  short       \* history: active loans left with fewer pins than copies out

vars == <<loans, pins, place, reserved, friends, asked, short>>

(* A new loan is not acknowledged; acknowledged_at and rejected_at exclude *)
(* each other, and a rejection matters as an acknowledgment withdrawn.     *)
Row(status, quantity, borrower) ==
  [status |-> status, quantity |-> quantity, returned |-> 0, declared |-> 0,
   borrower |-> borrower, acknowledged |-> FALSE]
Absent  == Row("none", 0, Named)
Deleted == Row("deleted", 0, Named)
Exists(l) == loans[l].status \in {"active", "returned", "written_off"}

Idle == [step |-> "idle", loan |-> Named, count |-> 0, borrower |-> Named,
         home |-> "own", found |-> {}]

Init ==
  /\ loans = [l \in LoanIds |-> Absent]
  /\ pins = [l \in LoanIds |-> {}]
  /\ place = [c \in Copies |-> "own"]
  /\ reserved = {} /\ friends = Friends
  /\ asked = [p \in Requests |-> Idle]
  /\ short = {}

Lent     == UNION {pins[l] : l \in LoanIds}
At(home) == {c \in Copies : place[c] = home}
Existing == Copies \ At("gone")
Outstanding(row) == row.quantity - row.returned

(* The row of a loan is locked from the update that reopens it.            *)
Locked(l) == \E p \in Requests : asked[p].step = "repin" /\ asked[p].loan = l

(* A reset keeps the copies it has checked locked until it deletes.        *)
Held == UNION {asked[p].found : p \in {q \in Requests : asked[q].step = "reset"}}

-----------------------------------------------------------------------------
(* createLoan *)

(* listUnclaimedCopyIds                                                    *)
Unclaimed == {c \in Copies : place[c] = "own" /\ c \notin reserved \cup Lent}

(* Those that survived the lock and that no trade reserved meanwhile; a    *)
(* loan that took one is left to the unique index of loan_copies.          *)
Available_NotReserved(found) == found \cap Existing
Available(found) == (found \cap Existing) \ reserved

CreateReads(p, n, b) ==
  /\ asked[p] = Idle
  /\ b \in friends \cup {Named} /\ Cardinality(Unclaimed) >= n
  /\ \E l \in LoanIds : loans[l] = Absent
  /\ asked' = [asked EXCEPT ![p] = [Idle EXCEPT !.step = "lend", !.count = n,
                                                !.borrower = b, !.found = Unclaimed]]
  /\ UNCHANGED <<loans, pins, place, reserved, friends, short>>

Refuse(p) ==
  /\ asked' = [asked EXCEPT ![p] = Idle]
  /\ UNCHANGED <<loans, pins, place, reserved, friends, short>>

CreatePins(p) ==
  LET ask == asked[p]
      available == Available(ask.found)
  IN  /\ ask.step = "lend" /\ ask.found \cap Held = {}
      /\ Cardinality(available) >= ask.count
      /\ ask.borrower \in friends \cup {Named}
      /\ \E l \in LoanIds, P \in SUBSET available :
           /\ loans[l] = Absent /\ Cardinality(P) = ask.count /\ P \cap Lent = {}
           /\ loans' = [loans EXCEPT ![l] =
                          Row("active", ask.count, ask.borrower)]
           /\ pins' = [pins EXCEPT ![l] = P]
      /\ asked' = [asked EXCEPT ![p] = Idle]
      /\ UNCHANGED <<place, reserved, friends, short>>

(* Too few survivors, or one of them was lent meanwhile.                   *)
CreateRefused(p) ==
  LET available == Available(asked[p].found)
  IN  /\ asked[p].step = "lend" /\ asked[p].found \cap Held = {}
      /\ \/ Cardinality(available) < asked[p].count
         \/ available \cap Lent # {}
         \/ asked[p].borrower \notin friends \cup {Named}
      /\ Refuse(p)

-----------------------------------------------------------------------------
(* Returns *)

Min2(a, b) == IF a <= b THEN a ELSE b

(* releasePins                                                             *)
ReleasePins_None(l, n) == pins' = pins
ReleasePins(l, n) ==
  \E R \in SUBSET pins[l] :
    /\ Cardinality(R) = Min2(n, Cardinality(pins[l]))
    /\ pins' = [pins EXCEPT ![l] = @ \ R]

Update(l, row) ==
  /\ ~Locked(l)
  /\ loans' = [loans EXCEPT ![l] = row]
  /\ short' = IF row.status = "active" THEN short ELSE short \ {l}
  /\ UNCHANGED <<reserved, friends, asked>>

(* The row after n more copies came back.                                  *)
BroughtBack(row, n, declared) ==
  [row EXCEPT !.returned = @ + n, !.declared = declared,
              !.status = IF row.returned + n = row.quantity THEN "returned" ELSE @]

(* recordReturn: the lender's return reviews what was declared.            *)
ReturnLoanCopies(l, n) ==
  /\ loans[l].status = "active" /\ n <= Outstanding(loans[l])
  /\ Update(l, BroughtBack(loans[l], n, 0))
  /\ ReleasePins(l, n)
  /\ UNCHANGED place

(* recordBorrowerReturn                                                    *)
DeclareLoanReturn_Unbounded(l, n) ==
  /\ loans[l].borrower \in friends
  /\ loans[l].status = "active" /\ loans[l].acknowledged
  /\ Update(l, BroughtBack(loans[l], n, loans[l].declared + n))
  /\ ReleasePins(l, n)
  /\ UNCHANGED place
DeclareLoanReturn(l, n) ==
  /\ loans[l].borrower \in friends
  /\ loans[l].status = "active" /\ loans[l].acknowledged
  /\ n <= Outstanding(loans[l])
  /\ Update(l, BroughtBack(loans[l], n, loans[l].declared + n))
  /\ ReleasePins(l, n)
  /\ UNCHANGED place

(* clearBorrowerReturn, whatever the status                                *)
ConfirmBorrowerReturn(l) ==
  /\ loans[l].declared > 0
  /\ Update(l, [loans[l] EXCEPT !.declared = 0])
  /\ UNCHANGED <<pins, place>>

-----------------------------------------------------------------------------
(* reopenBorrowerReturn *)

ReopenReads(p, l) ==
  /\ asked[p] = Idle
  /\ Exists(l) /\ loans[l].declared > 0
  /\ asked' = [asked EXCEPT ![p] = [Idle EXCEPT !.step = "reopen", !.loan = l,
                                                !.count = loans[l].declared]]
  /\ UNCHANGED <<loans, pins, place, reserved, friends, short>>

(* undoBorrowerReturn takes the row's lock and is guarded on the count     *)
(* that was read; the copies are listed after it.                          *)
MayUndo_NotCompared(ask) == loans[ask.loan].returned >= ask.count
MayUndo(ask) == loans[ask.loan].declared = ask.count

ReopenUpdates(p) ==
  LET ask == asked[p]
  IN  /\ ask.step = "reopen" /\ ~Locked(ask.loan) /\ MayUndo(ask)
      /\ asked' = [asked EXCEPT ![p].step = "repin", ![p].found = Unclaimed]
      /\ UNCHANGED <<loans, pins, place, reserved, friends, short>>

ReopenRefused(p) ==
  /\ asked[p].step = "reopen" /\ ~Locked(asked[p].loan) /\ ~MayUndo(asked[p])
  /\ Refuse(p)

(* As many of the copies as are still there are pinned again, and both     *)
(* changes commit.                                                         *)
ReopenPins(p) ==
  LET ask == asked[p]
      l   == ask.loan
      available == Available(ask.found)
  IN  /\ ask.step = "repin" /\ ask.found \cap Held = {}
      /\ \E P \in SUBSET available :
           /\ Cardinality(P) = Min2(ask.count, Cardinality(available))
           /\ P \cap Lent = {}
           /\ pins' = [pins EXCEPT ![l] = @ \cup P]
           /\ short' = IF Cardinality(P) < ask.count THEN short \cup {l} ELSE short
      /\ loans' = [loans EXCEPT ![l].returned = @ - ask.count, ![l].declared = 0,
                                ![l].status = "active"]
      /\ asked' = [asked EXCEPT ![p] = Idle]
      /\ UNCHANGED <<place, reserved, friends>>

(* One of them was lent meanwhile: the loan stays as it was.               *)
ReopenRollsBack(p) ==
  /\ asked[p].step = "repin" /\ asked[p].found \cap Held = {}
  /\ Available(asked[p].found) \cap Lent # {}
  /\ Refuse(p)

-----------------------------------------------------------------------------
(* The other ends of a loan, and the borrower's answer *)

(* markWrittenOff: the lender touching the loan reviews any declaration.   *)
WrittenOff(row) == [row EXCEPT !.status = "written_off", !.declared = 0]

WriteOffLoan(l) ==
  /\ loans[l].status = "active"
  /\ Update(l, WrittenOff(loans[l]))
  /\ pins' = [pins EXCEPT ![l] = {}]
  /\ UNCHANGED place

(* With removeCopies the pinned copies are disposed of, which fails as a   *)
(* whole if one of them is no longer the lender's to write.                *)
WriteOffAndRemove(l) ==
  /\ loans[l].status = "active"
  /\ \A c \in pins[l] : place[c] \notin Friends /\ c \notin reserved
  /\ Update(l, WrittenOff(loans[l]))
  /\ place' = [c \in Copies |-> IF c \in pins[l] THEN "gone" ELSE place[c]]
  /\ pins' = [pins EXCEPT ![l] = {}]

Answer(l, acknowledged) ==
  /\ loans[l].status = "active" /\ loans[l].borrower \in friends
  /\ Update(l, [loans[l] EXCEPT !.acknowledged = acknowledged])
  /\ UNCHANGED <<pins, place>>
AcknowledgeLoan(l) == Answer(l, TRUE)
RejectLoan(l)      == Answer(l, FALSE)

DeleteLoan(l) ==
  /\ Exists(l)
  /\ Update(l, Deleted)
  /\ pins' = [pins EXCEPT ![l] = {}]
  /\ UNCHANGED place

-----------------------------------------------------------------------------
(* What happens to the copies meanwhile *)

KeepLoans == UNCHANGED <<loans, friends, asked>>

(* acceptTrade locks the copies and leaves out those on a loan; a reserved *)
(* copy is freed when its trade is cancelled or settled.                   *)
ReserveCopy(c) ==
  /\ place[c] = "own" /\ c \notin reserved \cup Lent \cup Held
  /\ reserved' = reserved \cup {c}
  /\ KeepLoans /\ UNCHANGED <<pins, place, short>>
FreeCopy(c) ==
  /\ c \in reserved /\ reserved' = reserved \ {c}
  /\ KeepLoans /\ UNCHANGED <<pins, place, short>>

(* disposeCopies refuses copies that are promised or lent.                 *)
MayDispose_Lent(c) == c \notin reserved
MayDispose(c) == c \notin reserved \cup Lent
DisposeCopy(c) ==
  /\ c \in Existing \ Held /\ MayDispose(c)
  /\ place' = [place EXCEPT ![c] = "gone"]
  /\ pins' = [l \in LoanIds |-> pins[l] \ {c}]
  /\ KeepLoans /\ UNCHANGED <<reserved, short>>

(* moveCopies looks at reservations and not at loans: a lent copy can be   *)
(* moved to a group, and from there to the collection of a member.         *)
MoveCopy(c, to) ==
  /\ c \notin reserved \cup Held
  /\ \/ place[c] = "group" /\ to \in {"own"} \cup friends
     \/ place[c] \in {"own"} \cup friends /\ to = "group"
  /\ place' = [place EXCEPT ![c] = to]
  /\ KeepLoans /\ UNCHANGED <<pins, reserved, short>>

(* Copies that are deleted take their pins with them, whoever deletes them *)
(* and whether they are lent or not.                                       *)
CopiesGo(C) ==
  /\ place' = [c \in Copies |-> IF c \in C THEN "gone" ELSE place[c]]
  /\ pins'  = [l \in LoanIds |-> pins[l] \ C]
  /\ short' = short \cup {l \in LoanIds : pins[l] \cap C # {}}

(* The copies in a group's collections go with the group.                  *)
DeleteGroup ==
  /\ At("group") # {} /\ CopiesGo(At("group"))
  /\ KeepLoans /\ UNCHANGED reserved

(* An account that shares a group with the lender is deleted.  Its name    *)
(* stays on what it borrowed (snapshot_deleted_user_names, which waits for *)
(* the row of a loan that is being reopened), its trades are cancelled,    *)
(* and its collections go with every copy in them.                         *)
DeleteAccount(b) ==
  LET borrowed == {l \in LoanIds : loans[l].borrower = b}
  IN  /\ b \in friends /\ At(b) \cap Held = {} /\ \A l \in borrowed : ~Locked(l)
      /\ friends' = friends \ {b}
      /\ loans' = [l \in LoanIds |-> IF l \in borrowed THEN [loans[l] EXCEPT !.borrower = Named]
                                                       ELSE loans[l]]
      /\ \E promised \in SUBSET reserved : reserved' = reserved \ promised
      /\ CopiesGo(At(b)) /\ UNCHANGED asked

(* resetCollections, of the lender or of a friend: it locks the copies it  *)
(* lists and refuses if one is claimed, but then deletes every copy in the *)
(* account's collections, those moved there meanwhile included.            *)
ResetReads(p, home) ==
  /\ asked[p] = Idle /\ home \in {"own"} \cup friends
  /\ At(home) \cap (reserved \cup Lent \cup Held) = {}
  /\ asked' = [asked EXCEPT ![p] = [Idle EXCEPT !.step = "reset", !.home = home,
                                                !.found = At(home)]]
  /\ UNCHANGED <<loans, pins, place, reserved, friends, short>>

ResetDeletes(p) ==
  LET swept == At(asked[p].home)
  IN  /\ asked[p].step = "reset" /\ swept \cap Held \subseteq asked[p].found
      /\ CopiesGo(swept) /\ reserved' = reserved \ swept
      /\ asked' = [asked EXCEPT ![p] = Idle]
      /\ UNCHANGED <<loans, friends>>

-----------------------------------------------------------------------------
Lender(l) ==
  \/ \E n \in 1..MaxQuantity : ReturnLoanCopies(l, n)
  \/ ConfirmBorrowerReturn(l) \/ WriteOffLoan(l) \/ WriteOffAndRemove(l) \/ DeleteLoan(l)

Borrower(l) ==
  \/ \E n \in 1..MaxQuantity : DeclareLoanReturn(l, n)
  \/ AcknowledgeLoan(l) \/ RejectLoan(l)

Request(p) ==
  \/ \E n \in 1..MaxQuantity, b \in Friends \cup {Named} : CreateReads(p, n, b)
  \/ CreatePins(p) \/ CreateRefused(p)
  \/ \E l \in LoanIds : ReopenReads(p, l)
  \/ ReopenUpdates(p) \/ ReopenRefused(p) \/ ReopenPins(p) \/ ReopenRollsBack(p)
  \/ \E home \in {"own"} \cup Friends : ResetReads(p, home)
  \/ ResetDeletes(p)

CopyStep ==
  \/ \E c \in Copies : ReserveCopy(c) \/ FreeCopy(c) \/ DisposeCopy(c)
  \/ \E c \in Copies, to \in {"own", "group"} \cup Friends : MoveCopy(c, to)
  \/ DeleteGroup

Next ==
  \/ \E p \in Requests : Request(p)
  \/ \E l \in LoanIds : Lender(l) \/ Borrower(l)
  \/ \E b \in Friends : DeleteAccount(b)
  \/ CopyStep

Spec == Init /\ [][Next]_vars

-----------------------------------------------------------------------------
(* Properties *)

Rows == [status : {"none", "active", "returned", "written_off", "deleted"},
         quantity : Nat, returned : Nat, declared : Nat,
         borrower : Friends \cup {Named}, acknowledged : BOOLEAN]
Places == {"own", "group", "gone"} \cup Friends
Asks == [step : {"idle", "lend", "reopen", "repin", "reset"}, loan : LoanIds \cup {Named},
         count : Nat, borrower : Friends \cup {Named},
         home : {"own"} \cup Friends, found : SUBSET Copies]

(* The columns keep to the CHECK constraints of the table, which no guard  *)
(* of the services repeats.                                                *)
TypeOK ==
  /\ loans \in [LoanIds -> Rows] /\ pins \in [LoanIds -> SUBSET Copies]
  /\ place \in [Copies -> Places]
  /\ reserved \subseteq Copies /\ friends \subseteq Friends
  /\ asked \in [Requests -> Asks] /\ short \subseteq LoanIds
  /\ \A l \in LoanIds :
       LET row == loans[l]
       IN  /\ row.declared <= row.returned /\ row.returned <= row.quantity
           /\ row.status = "returned" => row.returned = row.quantity
           /\ row.status = "active" => row.returned < row.quantity

(* A loan never holds more pins than it has copies out, and none once it   *)
(* is closed: no copy stays locked away by a loan that is over, whatever   *)
(* order declared returns, reviews, write-offs and reopenings come in.     *)
PinsAreOut ==
  \A l \in LoanIds :
    Cardinality(pins[l]) <= IF loans[l].status = "active" THEN Outstanding(loans[l]) ELSE 0

(* It holds no fewer either, so that a copy that is out cannot be promised *)
(* or disposed of - but for a reopening that found too few free copies,    *)
(* and a lent copy that was moved into another collection and deleted with *)
(* it: with the group it was moved to, with the account of the member who  *)
(* took it from there, or by a reset of collections that did not list it.  *)
OutIsPinned ==
  \A l \in LoanIds : loans[l].status = "active" /\ l \notin short =>
    Cardinality(pins[l]) >= Outstanding(loans[l])

(* A copy is on one loan at most, and not promised to a trade as well; the *)
(* two kinds of pin are in different tables, and reopening and lending     *)
(* list the free copies some time before they pin them.                    *)
EachCopyOnce ==
  /\ Lent \cap reserved = {}
  /\ \A k, l \in LoanIds : k # l => pins[k] \cap pins[l] = {}

(* The ledger the two parties see.                                         *)
Stage(status) ==
  CASE status \in {"active", "returned"} -> "open"
    [] status = "written_off" -> "lost"
    [] OTHER -> status
Account(row) == [stage    |-> Stage(row.status),
                 out      |-> Outstanding(row),
                 declared |-> row.declared,
                 settled  |-> row.returned - row.declared]
Accounts == [l \in LoanIds |-> Account(loans[l])]
Ledger == INSTANCE LoanLedger WITH Loans <- LoanIds, ledger <- Accounts

(* Every step of the services is a step of the ledger, or none: a count    *)
(* that was read before a review, a second declaration or a write-off is   *)
(* never undone against the lender's word, and no loan that was given up   *)
(* comes back, although the update that reopens one looks at no status.    *)
ImplementsLedger == Ledger!Spec
=============================================================================
