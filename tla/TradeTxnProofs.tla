--------------------------- MODULE TradeTxnProofs ---------------------------
(***************************************************************************)
(* Proofs that the row locks keep every copy with the one it was promised  *)
(* or lent to, for every number of transactions, jobs, copies and trades.  *)
(*                                                                         *)
(* What a transaction has found out remains true until it commits, because *)
(* whoever could change it holds the same row: that is Sound, and the      *)
(* proof is one lemma on what a commit does to the database and to what    *)
(* the others rely on, and one on what each commit writes.                 *)
(***************************************************************************)
EXTENDS TradeTxn, SupplyClaimsProofs, TLAPS

(* No transaction adds copies while another resets the collections.        *)
AddsApart ==
  \A p, q \in Txns : job[p].kind = "add" => job[q].kind # "reset"

Held(p, r)         == r \in Rows /\ holder[r] = p
HeldOrWanted(p, r) == r \in wants[p] \/ Held(p, r)
Free(c)            == c \notin Reserved(db) /\ c \notin db.lent

DbInv ==
  /\ Existing(db) \subseteq Copies
  /\ PromisedToOne
  /\ AddsApart => ReservedIsCovered

JobInv ==
  /\ \A p \in Txns : FitJob(job[p])
  /\ DOMAIN pc = Txns /\ DOMAIN writes = Txns /\ DOMAIN found = Txns
  /\ DOMAIN wants = Txns /\ DOMAIN holder = Rows

-----------------------------------------------------------------------------
(* What a transaction relies on, by its job. *)

PinsOf(t, P) == [NoWrites EXCEPT !.pinned = {t} \X P,
                                 !.status = [s \in {t} |-> "reserved"]]
StatusOf(t, x) == [NoWrites EXCEPT !.status = [s \in {t} |-> x]]

Pinning(p, t) ==
  \E P \in SUBSET Copies :
    /\ writes[p] = PinsOf(t, P)
    /\ Cardinality(P) = TradeRows[t].quantity
    /\ \A c \in P : Held(p, c) /\ Free(c)

Accepting(p) ==
  LET t == job[p].trade
  IN  /\ pc[p] \in {"read", "write", "sweep", "close"}
      /\ pc[p] = "read" => HeldOrWanted(p, t) /\ writes[p] = NoWrites
      /\ pc[p] # "read" => Held(p, t) /\ db.status[t] = "pending"
      /\ pc[p] = "write" =>
           found[p] \subseteq Copies /\ \A c \in found[p] : HeldOrWanted(p, c)
      /\ pc[p] \in {"sweep", "close"} =>
           writes[p] = StatusOf(t, "cancelled") \/ Pinning(p, t)

Disposing(p) ==
  /\ pc[p] \in {"write", "sweep", "close"}
  /\ pc[p] = "write" => \A c \in job[p].copies : HeldOrWanted(p, c)
  /\ pc[p] # "write" => /\ writes[p] = [NoWrites EXCEPT !.deleted = job[p].copies]
                        /\ \A c \in job[p].copies : Held(p, c) /\ Free(c)

Moving(p) ==
  /\ pc[p] \in {"write", "sweep", "close"}
  /\ pc[p] # "write" => writes[p] = [NoWrites EXCEPT !.moved = job[p].copies]

Lending(p) ==
  /\ pc[p] \in {"read", "write"}
  /\ pc[p] = "write" => \A c \in found[p] : HeldOrWanted(p, c)

Resetting(p) ==
  /\ pc[p] \in {"read", "write", "delete"}
  /\ pc[p] = "write" => /\ \A c \in found[p] : HeldOrWanted(p, c)
                        /\ AddsApart => db.home \subseteq found[p]
  /\ pc[p] = "delete" => (AddsApart => \A c \in db.home : Held(p, c) /\ Free(c))

Cancelling(p) == pc[p] = "write" /\ HeldOrWanted(p, job[p].trade)

Offering(p) ==
  LET t == job[p].trade
      g == TradeRows[t].group
  IN  /\ pc[p] \in {"read", "write"}
      /\ pc[p] = "read"  => HeldOrWanted(p, g)
      /\ pc[p] = "write" => /\ Held(p, g) /\ db.status[t] = "none"
                            /\ writes[p] = StatusOf(t, "pending")

Sound(p) ==
  pc[p] \notin {"committed", "failed"} =>
    /\ job[p].kind = "accept"  => Accepting(p)
    /\ job[p].kind = "dispose" => Disposing(p)
    /\ job[p].kind = "move"    => Moving(p)
    /\ job[p].kind = "lend"    => Lending(p)
    /\ job[p].kind = "reset"   => Resetting(p)
    /\ job[p].kind = "cancel"  => Cancelling(p)
    /\ job[p].kind = "offer"   => Offering(p)
    /\ job[p].kind = "add"     => pc[p] = "write"

IInv == JobInv /\ DbInv /\ \A p \in Txns : Sound(p)

-----------------------------------------------------------------------------
(* What a commit may do. *)

(* The status of a trade is p's to change: it holds the row, or for a new  *)
(* trade the advisory lock of its group.                                   *)
MayChange(p, t) ==
  \/ db.status[t] \in {"pending", "reserved"} /\ Held(p, t)
  \/ db.status[t] = "none" /\ Held(p, TradeRows[t].group)

(* It takes only copies p has locked, changes the status only of trades    *)
(* that are p's to change, brings copies home only to add them, and leaves *)
(* what is lent alone, unless a reset deletes copies just added.           *)
Careful(p) ==
  /\ \A c \in Reserved(db') : c \in Reserved(db) \/ Held(p, c)
  /\ \A c \in db'.lent : c \in db.lent \/ Held(p, c)
  /\ \A t \in Trades : db'.status[t] # db.status[t] => MayChange(p, t)
  /\ job[p].kind = "add" \/ db'.home \subseteq db.home
  /\ AddsApart => db.lent \subseteq db'.lent

(* The copies that the writes w pin for trade t.                           *)
Pinned(w, t) == {c \in Copies : <<t, c>> \in w.pinned}

(* Trade t has its pins as long as it is reserved.                         *)
Balanced(w, t) ==
  IF t \notin DOMAIN w.status THEN Pinned(w, t) = {} /\ t \notin w.released
  ELSE IF w.status[t] = "reserved"
    THEN /\ db.status[t] # "reserved" /\ Cardinality(Pinned(w, t)) = TradeRows[t].quantity
         /\ t \notin w.released
  ELSE Pinned(w, t) = {} /\ (db.status[t] = "reserved" => t \in w.released)

(* The writes w of p are such that it may commit them.                     *)
Admissible(p, w) ==
  /\ w.added \cup w.moved \subseteq Copies
  /\ job[p].kind = "add" \/ w.added = {}
  /\ w.pinned = {} \/ (w.lent = {} /\ w.deleted = {})
  /\ \A c \in w.lent : Held(p, c) /\ Free(c)
  /\ \A t \in Trades : \A c \in Pinned(w, t) : Held(p, c) /\ Free(c)
  /\ \A s, t \in Trades : s # t => Pinned(w, s) = {} \/ Pinned(w, t) = {}
  /\ \A t \in Trades \cap DOMAIN w.status : MayChange(p, t)
  /\ \A t \in Trades : Balanced(w, t)
  /\ AddsApart => \A c \in w.deleted : Free(c)

-----------------------------------------------------------------------------
LEMMA PinsOfApplied ==
  ASSUME NEW w, NEW t \in Trades
  PROVE  Applied(w, db).pins[t] =
           ((IF t \in w.released THEN {} ELSE db.pins[t]) \cup Pinned(w, t)) \ w.deleted
  BY DEF Applied, Pinned

LEMMA ReservedMembers ==
  ASSUME NEW d
  PROVE  \A c : c \in Reserved(d) <=> \E t \in Trades : c \in d.pins[t]
  BY DEF Reserved

LEMMA CommitIsCareful ==
  ASSUME NEW p \in Txns, NEW w, Admissible(p, w), db' = Applied(w, db)
  PROVE  Careful(p)
<1>1. ASSUME NEW c \in Reserved(db'), c \notin Reserved(db)
      PROVE  Held(p, c)
  <2>1. PICK t \in Trades : c \in db'.pins[t]
    BY <1>1, ReservedMembers
  <2>2. c \notin db.pins[t]
    BY <1>1, ReservedMembers
  <2>3. c \in Pinned(w, t)
    BY <2>1, <2>2, PinsOfApplied
  <2> QED
    BY <2>3 DEF Admissible
<1>2. ASSUME NEW c \in db'.lent, c \notin db.lent
      PROVE  Held(p, c)
  BY <1>2 DEF Applied, Admissible
<1>3. ASSUME NEW t \in Trades, db'.status[t] # db.status[t]
      PROVE  MayChange(p, t)
  <2>1. t \in DOMAIN w.status
    BY <1>3 DEF Applied
  <2> QED
    BY <2>1 DEF Admissible
<1>4. job[p].kind = "add" \/ db'.home \subseteq db.home
  BY DEF Applied, Admissible
<1>5. AddsApart => db.lent \subseteq db'.lent
  BY DEF Applied, Admissible, Free
<1> QED
  BY <1>1, <1>2, <1>3, <1>4, <1>5 DEF Careful

LEMMA CommitKeepsPromises ==
  ASSUME NEW p \in Txns, NEW w, Admissible(p, w), db' = Applied(w, db), PromisedToOne
  PROVE  PromisedToOne'
<1>1. ASSUME NEW s \in Trades, NEW t \in Trades, s # t, NEW c,
             c \in db'.pins[s], c \in db'.pins[t]
      PROVE  FALSE
  <2>1. c \in db.pins[s] \/ c \in Pinned(w, s)
    BY <1>1, PinsOfApplied
  <2>2. c \in db.pins[t] \/ c \in Pinned(w, t)
    BY <1>1, PinsOfApplied
  <2>3. ~(c \in db.pins[s] /\ c \in db.pins[t])
    BY <1>1 DEF PromisedToOne
  <2>4. ~(c \in Pinned(w, s) /\ c \in Pinned(w, t))
    BY <1>1 DEF Admissible
  <2>5. c \in Pinned(w, s) \/ c \in Pinned(w, t) => c \notin Reserved(db)
    BY DEF Admissible, Free
  <2> QED
    BY <2>1, <2>2, <2>3, <2>4, <2>5, ReservedMembers
<1>2. ASSUME NEW t \in Trades, NEW c, c \in db'.pins[t], c \in db'.lent
      PROVE  FALSE
  <2>1. c \in db.pins[t] \/ c \in Pinned(w, t)
    BY <1>2, PinsOfApplied
  <2>2. c \in db.lent \/ c \in w.lent
    BY <1>2 DEF Applied
  <2>3. ~(c \in db.pins[t] /\ c \in db.lent)
    BY ReservedMembers DEF PromisedToOne
  <2>4. c \in Pinned(w, t) => c \notin db.lent
    BY DEF Admissible, Free
  <2>5. c \in w.lent => c \notin db.pins[t]
    BY ReservedMembers DEF Admissible, Free
  <2>6. ~(c \in Pinned(w, t) /\ c \in w.lent)
    BY DEF Admissible, Pinned
  <2> QED
    BY <2>1, <2>2, <2>3, <2>4, <2>5, <2>6
<1>3. \A s, t \in Trades : s # t => db'.pins[s] \cap db'.pins[t] = {}
  BY <1>1
<1>4. Reserved(db') \cap db'.lent = {}
  BY <1>2, ReservedMembers
<1> QED
  BY <1>3, <1>4 DEF PromisedToOne

LEMMA CommitKeepsCover ==
  ASSUME NEW p \in Txns, NEW w, Admissible(p, w), db' = Applied(w, db),
         AddsApart, ReservedIsCovered
  PROVE  ReservedIsCovered'
<1> SUFFICES ASSUME NEW t \in Trades
             PROVE  /\ db'.status[t] = "reserved" =>
                         Cardinality(db'.pins[t]) = TradeRows[t].quantity
                    /\ db'.status[t] # "reserved" => db'.pins[t] = {}
  BY DEF ReservedIsCovered
<1>1. db'.status[t] = IF t \in DOMAIN w.status THEN w.status[t] ELSE db.status[t]
  BY DEF Applied
<1>2. Balanced(w, t)
  BY DEF Admissible
<1>3. db.status[t] # "reserved" => db.pins[t] = {}
  BY DEF ReservedIsCovered
<1>4. Pinned(w, t) # {} => w.deleted = {}
  BY DEF Admissible, Pinned
<1>5. db.pins[t] \cap w.deleted = {}
  BY ReservedMembers DEF Admissible, Free
<1>6. CASE t \notin DOMAIN w.status
  <2>1. Pinned(w, t) = {} /\ t \notin w.released
    BY <1>2, <1>6 DEF Balanced
  <2>2. db'.pins[t] = (db.pins[t] \cup {}) \ w.deleted
    BY <2>1, PinsOfApplied
  <2>3. db'.pins[t] = db.pins[t]
    BY <1>5, <2>2
  <2> QED
    BY <1>1, <1>6, <2>3 DEF ReservedIsCovered
<1>7. CASE t \in DOMAIN w.status /\ w.status[t] = "reserved"
  <2>1. db.pins[t] = {} /\ t \notin w.released
    BY <1>2, <1>3, <1>7 DEF Balanced
  <2>2. db'.pins[t] = Pinned(w, t) \ w.deleted
    BY <2>1, PinsOfApplied
  <2>3. db'.pins[t] = Pinned(w, t)
    BY <1>4, <2>2
  <2> QED
    BY <1>1, <1>2, <1>7, <2>3 DEF Balanced
<1>8. CASE t \in DOMAIN w.status /\ w.status[t] # "reserved"
  <2>1. db'.pins[t] = {}
    BY <1>2, <1>3, <1>8, PinsOfApplied DEF Balanced
  <2> QED
    BY <1>1, <1>8, <2>1
<1> QED
  BY <1>6, <1>7, <1>8

LEMMA CommitKeepsDb ==
  ASSUME NEW p \in Txns, NEW w, Admissible(p, w), db' = Applied(w, db), job' = job, DbInv
  PROVE  DbInv' /\ Careful(p)
<1>1. (Existing(db) \subseteq Copies)'
  BY DEF DbInv, Admissible, Applied, Existing
<1>2. AddsApart' = AddsApart
  BY DEF AddsApart
<1> QED
  BY <1>1, <1>2, CommitIsCareful, CommitKeepsPromises, CommitKeepsCover DEF DbInv

-----------------------------------------------------------------------------
(* What the others rely on. *)

LEMMA OneHolder ==
  ASSUME NEW p, NEW q, p # q, NEW r, Held(q, r)
  PROVE  ~Held(p, r)
  BY DEF Held

(* A step of p that keeps the rows q has locked and q's variables, and     *)
(* either commits nothing or is another's careful commit.                  *)
Aside(p, q) ==
  /\ db' = db \/ (p # q /\ Careful(p))
  /\ job' = job /\ pc'[q] = pc[q] /\ writes'[q] = writes[q] /\ found'[q] = found[q]
  /\ \A r \in Rows : Held(q, r) => Held(q, r)'
  /\ \A r \in wants[q] : HeldOrWanted(q, r)'

LEMMA AsideKeepsRows ==
  ASSUME NEW p \in Txns, NEW q \in Txns, Aside(p, q), NEW r
  PROVE  /\ Held(q, r) => Held(q, r)'
         /\ HeldOrWanted(q, r) => HeldOrWanted(q, r)'
<1>1. Held(q, r) => Held(q, r)'
  BY DEF Aside, Held
<1>2. r \in wants[q] => HeldOrWanted(q, r)'
  BY DEF Aside
<1> QED
  BY <1>1, <1>2 DEF HeldOrWanted

LEMMA AsideKeepsFree ==
  ASSUME NEW p \in Txns, NEW q \in Txns, Aside(p, q), NEW c, Held(q, c), Free(c)
  PROVE  Held(q, c)' /\ Free(c)'
<1>1. p # q => ~Held(p, c)
  BY OneHolder
<1>2. Free(c)'
  <2>1. CASE db' = db
    BY <2>1 DEF Free
  <2>2. CASE p # q /\ Careful(p)
    BY <1>1, <2>2 DEF Free, Careful
  <2> QED
    BY <2>1, <2>2 DEF Aside
<1> QED
  BY <1>2, AsideKeepsRows

LEMMA AsideKeepsStatus ==
  ASSUME NEW p \in Txns, NEW q \in Txns, Aside(p, q), NEW t \in Trades
  PROVE  /\ Held(q, t) /\ db.status[t] = "pending" => db'.status[t] = "pending"
         /\ Held(q, TradeRows[t].group) /\ db.status[t] = "none" => db'.status[t] = "none"
  BY OneHolder DEF Aside, Careful, MayChange

LEMMA AcceptingStays ==
  ASSUME NEW p \in Txns, NEW q \in Txns, Aside(p, q), job[q].trade \in Trades, Accepting(q)
  PROVE  Accepting(q)'
<1> DEFINE t == job[q].trade
<1>0. t' = t /\ pc'[q] = pc[q] /\ writes'[q] = writes[q] /\ found'[q] = found[q]
  BY DEF Aside
<1>1. HeldOrWanted(q, t) => HeldOrWanted(q, t)'
  BY <1>0, AsideKeepsRows
<1>2. Held(q, t) /\ db.status[t] = "pending" =>
        Held(q, t)' /\ db'.status[t] = "pending"
  BY <1>0, AsideKeepsRows, AsideKeepsStatus
<1>3. (\A c \in found[q] : HeldOrWanted(q, c)) => (\A c \in found[q] : HeldOrWanted(q, c)')
  BY AsideKeepsRows
<1>4. Pinning(q, t) => Pinning(q, t)'
  <2>1. SUFFICES ASSUME NEW P \in SUBSET Copies, writes[q] = PinsOf(t, P),
                        Cardinality(P) = TradeRows[t].quantity,
                        \A c \in P : Held(q, c) /\ Free(c)
                 PROVE  Pinning(q, t)'
    BY DEF Pinning
  <2>2. \A c \in P : Held(q, c)' /\ Free(c)'
    BY <2>1, AsideKeepsFree
  <2>3. writes'[q] = PinsOf(t', P) /\ Cardinality(P) = TradeRows[t'].quantity
    BY <1>0, <2>1
  <2> QED
    BY <2>2, <2>3 DEF Pinning, PinsOf, NoWrites
<1> QED
  BY <1>0, <1>1, <1>2, <1>3, <1>4 DEF Accepting, StatusOf, NoWrites

LEMMA OthersStaySound ==
  ASSUME NEW p \in Txns, NEW q \in Txns, Aside(p, q), FitJob(job[q]), Sound(q)
  PROVE  Sound(q)'
<1>0. /\ job' = job /\ pc'[q] = pc[q] /\ writes'[q] = writes[q]
      /\ found'[q] = found[q] /\ AddsApart' = AddsApart
  BY DEF Aside, AddsApart
<1>1. job[q].kind = "accept" /\ Accepting(q) => Accepting(q)'
  BY AcceptingStays DEF FitJob
<1>2. Disposing(q) => Disposing(q)'
  <2>1. \A c \in job[q].copies : HeldOrWanted(q, c) => HeldOrWanted(q, c)'
    BY AsideKeepsRows
  <2>2. \A c \in job[q].copies : Held(q, c) /\ Free(c) => Held(q, c)' /\ Free(c)'
    BY AsideKeepsFree
  <2> QED
    BY <1>0, <2>1, <2>2 DEF Disposing, NoWrites
<1>3. Moving(q) => Moving(q)'
  BY <1>0 DEF Moving, NoWrites
<1>4. Lending(q) => Lending(q)'
  BY <1>0, AsideKeepsRows DEF Lending
<1>5. job[q].kind = "reset" /\ Resetting(q) => Resetting(q)'
  <2>0. SUFFICES ASSUME job[q].kind = "reset", Resetting(q)
                 PROVE  Resetting(q)'
    OBVIOUS
  <2>1. AddsApart => db'.home \subseteq db.home
    BY <2>0 DEF AddsApart, Aside, Careful
  <2>2. \A c \in found[q] : HeldOrWanted(q, c) => HeldOrWanted(q, c)'
    BY AsideKeepsRows
  <2>3. \A c : Held(q, c) /\ Free(c) => Held(q, c)' /\ Free(c)'
    BY AsideKeepsFree
  <2>4. CASE pc[q] = "delete"
    BY <1>0, <2>0, <2>1, <2>3, <2>4 DEF Resetting
  <2>5. CASE pc[q] = "write"
    BY <1>0, <2>0, <2>1, <2>2, <2>5 DEF Resetting
  <2> QED
    BY <1>0, <2>0, <2>4, <2>5 DEF Resetting
<1>6. Cancelling(q) => Cancelling(q)'
  BY <1>0, AsideKeepsRows DEF Cancelling
<1>7. job[q].kind = "offer" /\ Offering(q) => Offering(q)'
  <2>0. SUFFICES ASSUME job[q].kind = "offer", Offering(q)
                 PROVE  Offering(q)'
    OBVIOUS
  <2>1. job[q].trade \in Trades
    BY <2>0 DEF FitJob
  <2>2. CASE pc[q] = "read"
    BY <1>0, <2>0, <2>2, AsideKeepsRows DEF Offering
  <2>3. CASE pc[q] = "write"
    BY <1>0, <2>0, <2>1, <2>3, AsideKeepsRows, AsideKeepsStatus DEF Offering, StatusOf, NoWrites
  <2> QED
    BY <2>0, <2>2, <2>3 DEF Offering
<1> QED
  BY <1>0, <1>1, <1>2, <1>3, <1>4, <1>5, <1>6, <1>7 DEF Sound

-----------------------------------------------------------------------------
(* The four kinds of steps. *)

LEMMA LockStep ==
  ASSUME IInv, NEW p \in Txns, NEW r \in Rows, Lock(p, r)
  PROVE  IInv'
<1>1. JobInv' /\ DbInv'
  <2>1. JobInv'
    BY DEF IInv, JobInv, Lock
  <2>2. db' = db /\ job' = job
    BY DEF Lock
  <2> QED
    BY <2>1, <2>2 DEF IInv, DbInv, PromisedToOne, ReservedIsCovered, AddsApart
<1>2. ASSUME NEW q \in Txns PROVE Sound(q)'
  <2>1. \A x \in Rows : Held(q, x) => Held(q, x)'
    BY TxnAssumption DEF Lock, Held, IInv, JobInv
  <2>2. \A x \in wants[q] : HeldOrWanted(q, x)'
    BY DEF Lock, Held, HeldOrWanted, IInv, JobInv
  <2>3. Aside(p, q)
    BY <2>1, <2>2 DEF Aside, Lock
  <2> QED
    BY <2>3, OthersStaySound DEF IInv, JobInv
<1> QED
  BY <1>1, <1>2 DEF IInv

(* When p fails or commits, the others keep their rows.                    *)
LEMMA EndStep ==
  ASSUME IInv, NEW p \in Txns, NEW x \in {"committed", "failed"},
         pc' = [pc EXCEPT ![p] = x], holder' = Released(p),
         wants' \in {wants, [wants EXCEPT ![p] = {}]},
         UNCHANGED <<job, writes, found>>,
         db' = db \/ (Careful(p) /\ DbInv')
  PROVE  IInv'
<1>1. JobInv'
  BY DEF IInv, JobInv, Released
<1>2. DbInv'
  BY DEF IInv, DbInv, PromisedToOne, ReservedIsCovered, AddsApart
<1>3. Sound(p)'
  BY DEF Sound, IInv, JobInv
<1>4. ASSUME NEW q \in Txns, q # p PROVE Sound(q)'
  <2>1. \A r \in Rows : Held(q, r) => Held(q, r)'
    BY <1>4 DEF Held, Released
  <2>2. \A r \in wants[q] : HeldOrWanted(q, r)'
    BY <1>4 DEF HeldOrWanted, IInv, JobInv
  <2>3. Aside(p, q)
    BY <1>4, <2>1, <2>2 DEF Aside, IInv, JobInv
  <2> QED
    BY <2>3, OthersStaySound DEF IInv, JobInv
<1> QED
  BY <1>1, <1>2, <1>3, <1>4 DEF IInv

LEMMA FailStep ==
  ASSUME IInv, NEW p \in Txns, Fail(p)
  PROVE  IInv'
  BY EndStep DEF Fail

LEMMA CommitStep ==
  ASSUME IInv, NEW p \in Txns, NEW w, Admissible(p, w), Commit(p, w)
  PROVE  IInv' /\ Careful(p)
<1>1. DbInv' /\ Careful(p)
  BY CommitKeepsDb DEF Commit, IInv
<1> QED
  BY <1>1, EndStep DEF Commit

LEMMA ProceedStep ==
  ASSUME IInv, NEW p \in Txns, NEW s, NEW w, NEW copies, NEW rows,
         Proceed(p, s, w, copies, rows), Sound(p)'
  PROVE  IInv'
<1>1. JobInv' /\ DbInv'
  <2>1. JobInv'
    BY DEF IInv, JobInv, Proceed
  <2>2. db' = db /\ job' = job
    BY DEF Proceed
  <2> QED
    BY <2>1, <2>2 DEF IInv, DbInv, PromisedToOne, ReservedIsCovered, AddsApart
<1>2. ASSUME NEW q \in Txns, q # p PROVE Sound(q)'
  <2>1. Aside(p, q)
    BY <1>2 DEF Aside, Proceed, Held, HeldOrWanted, IInv, JobInv
  <2> QED
    BY <2>1, OthersStaySound DEF IInv, JobInv
<1> QED
  BY <1>1, <1>2 DEF IInv

-----------------------------------------------------------------------------
(* acceptTrade *)

LEMMA SeenBeforeWriting ==
  ASSUME NEW p \in Txns, writes[p] = NoWrites
  PROVE  /\ Existing(Seen(p)) = Existing(db)
         /\ \A t \in Trades : Seen(p).status[t] = db.status[t]
  BY DEF Seen, Applied, Existing, NoWrites

LEMMA AcceptIsSound ==
  ASSUME IInv, NEW p \in Txns, job[p].kind = "accept", pc[p] \notin {"committed", "failed"}
  PROVE  Accepting(p) /\ job[p].trade \in Trades
  BY DEF IInv, Sound, JobInv, FitJob

LEMMA AcceptReadsStep ==
  ASSUME IInv, NEW p \in Txns, AcceptReads(p)
  PROVE  IInv'
<1> DEFINE t == job[p].trade
           g == TradeRows[t].group
           d == Seen(p)
<1>1. /\ job[p].kind = "accept" /\ pc[p] = "read" /\ wants[p] = {}
      /\ t \in Trades /\ Held(p, t) /\ writes[p] = NoWrites
  BY AcceptIsSound DEF AcceptReads, At, Accepting, HeldOrWanted
<1>2. d.status[t] = db.status[t] /\ Supply(d, g) \subseteq Copies
  BY <1>1, SeenBeforeWriting DEF IInv, DbInv, Supply
<1>3. CASE Fail(p)
  BY <1>3, FailStep
<1>4. CASE d.status[t] = "pending" /\ Proceed(p, "write", NoWrites, Supply(d, g), Supply(d, g))
  <2>1. /\ pc'[p] = "write" /\ job' = job /\ holder' = holder /\ db' = db
        /\ found'[p] = Supply(d, g) /\ wants'[p] = Supply(d, g)
    BY <1>4 DEF Proceed, IInv, JobInv
  <2>2. Accepting(p)'
    BY <1>1, <1>2, <1>4, <2>1 DEF Accepting, Held, HeldOrWanted
  <2>3. Sound(p)'
    BY <1>1, <2>1, <2>2 DEF Sound
  <2> QED
    BY <1>4, <2>3, ProceedStep
<1>5. CASE d.status[t] = "pending" /\ Proceed(p, "sweep", StatusOf(t, "cancelled"), {}, {})
  <2>1. /\ pc'[p] = "sweep" /\ job' = job /\ holder' = holder /\ db' = db
        /\ writes'[p] = StatusOf(t, "cancelled")
    BY <1>5 DEF Proceed, IInv, JobInv
  <2>2. Accepting(p)'
    BY <1>1, <1>2, <1>5, <2>1 DEF Accepting, Held, HeldOrWanted, StatusOf, NoWrites
  <2>3. Sound(p)'
    BY <1>1, <2>1, <2>2 DEF Sound
  <2> QED
    BY <1>5, <2>3, ProceedStep
<1> QED
  BY <1>3, <1>4, <1>5 DEF AcceptReads, StatusOf

LEMMA AcceptPinsStep ==
  ASSUME IInv, NEW p \in Txns, AcceptPins(p)
  PROVE  IInv'
<1> DEFINE t == job[p].trade
<1>1. /\ job[p].kind = "accept" /\ pc[p] = "write" /\ wants[p] = {}
      /\ t \in Trades /\ Held(p, t) /\ db.status[t] = "pending"
      /\ found[p] \subseteq Copies /\ \A c \in found[p] : Held(p, c)
  BY AcceptIsSound DEF AcceptPins, At, Accepting, HeldOrWanted
<1>2. CASE Fail(p)
  BY <1>2, FailStep
<1>3. ASSUME NEW P \in SUBSET Claimable(p), Cardinality(P) = TradeRows[t].quantity,
             P \cap Reserved(db) = {}, Proceed(p, "sweep", PinsOf(t, P), {}, {})
      PROVE  IInv'
  <2>1. /\ pc'[p] = "sweep" /\ job' = job /\ holder' = holder /\ db' = db
        /\ writes'[p] = PinsOf(t, P)
    BY <1>3 DEF Proceed, IInv, JobInv
  <2>2. P \subseteq Copies /\ \A c \in P : Held(p, c) /\ Free(c)
    BY <1>1, <1>3 DEF Claimable, Free
  <2>3. t' = t /\ \A c \in P : Held(p, c)' /\ Free(c)'
    BY <2>1, <2>2 DEF Held, Free
  <2>4. Pinning(p, t)'
    BY <1>3, <2>1, <2>2, <2>3 DEF Pinning, PinsOf, NoWrites
  <2>5. Accepting(p)'
    BY <1>1, <2>1, <2>4 DEF Accepting, Held
  <2>6. Sound(p)'
    BY <1>1, <2>1, <2>5 DEF Sound
  <2> QED
    BY <1>3, <2>6, ProceedStep
<1> QED
  BY <1>2, <1>3 DEF AcceptPins, PinsOf

-----------------------------------------------------------------------------
(* disposeCopies, moveCopies, the sweep *)

LEMMA DisposeDeletesStep ==
  ASSUME IInv, NEW p \in Txns, DisposeDeletes(p)
  PROVE  IInv'
<1> DEFINE w == [NoWrites EXCEPT !.deleted = job[p].copies]
<1>1. job[p].kind = "dispose" /\ \A c \in job[p].copies : Held(p, c)
  BY DEF DisposeDeletes, At, IInv, Sound, Disposing, HeldOrWanted
<1>2. CASE MayDispose(p) /\ Proceed(p, "sweep", w, {}, {})
  <2>1. /\ pc'[p] = "sweep" /\ job' = job /\ holder' = holder /\ db' = db
        /\ writes'[p] = w
    BY <1>2 DEF Proceed, IInv, JobInv
  <2>2. \A c \in job[p].copies : Held(p, c)' /\ Free(c)'
    BY <1>1, <1>2, <2>1 DEF MayDispose, Held, Free
  <2>3. Sound(p)'
    BY <1>1, <2>1, <2>2 DEF Sound, Disposing, NoWrites
  <2> QED
    BY <1>2, <2>3, ProceedStep
<1> QED
  BY <1>2, FailStep DEF DisposeDeletes

LEMMA MoveWritesStep ==
  ASSUME IInv, NEW p \in Txns, MoveWrites(p)
  PROVE  IInv'
<1> DEFINE w == [NoWrites EXCEPT !.moved = job[p].copies]
<1>1. job[p].kind = "move"
  BY DEF MoveWrites, At
<1>2. CASE Proceed(p, "sweep", w, {}, {})
  <2>1. pc'[p] = "sweep" /\ job' = job /\ writes'[p] = w
    BY <1>2 DEF Proceed, IInv, JobInv
  <2>2. Sound(p)'
    BY <1>1, <2>1 DEF Sound, Moving, NoWrites
  <2> QED
    BY <1>2, <2>2, ProceedStep
<1> QED
  BY <1>2, FailStep DEF MoveWrites

LEMMA Sweepers ==
  ASSUME IInv, NEW p \in Txns, pc[p] \in {"sweep", "close"}
  PROVE  job[p].kind \in {"accept", "dispose", "move"}
  BY DEF IInv, JobInv, FitJob, Kinds, Sound, Lending, Resetting, Cancelling, Offering

LEMMA SweepReadsStep ==
  ASSUME IInv, NEW p \in Txns, SweepReads(p)
  PROVE  IInv'
<1>1. /\ pc[p] = "sweep" /\ pc'[p] = "close" /\ writes'[p] = writes[p]
      /\ job' = job /\ holder' = holder /\ db' = db
  BY DEF SweepReads, Proceed, IInv, JobInv
<1>2. CASE job[p].kind = "accept"
  <2>1. Accepting(p)
    BY <1>1, <1>2, AcceptIsSound
  <2>2. Accepting(p)'
    BY <1>1, <2>1 DEF Accepting, Pinning, PinsOf, StatusOf, NoWrites, Held, Free
  <2> QED
    BY <1>1, <1>2, <2>2, ProceedStep DEF SweepReads, Sound
<1>3. CASE job[p].kind = "dispose"
  <2>1. Disposing(p)
    BY <1>1, <1>3 DEF IInv, Sound
  <2>2. Disposing(p)'
    BY <1>1, <2>1 DEF Disposing, NoWrites, Held, Free
  <2> QED
    BY <1>1, <1>3, <2>2, ProceedStep DEF SweepReads, Sound
<1>4. CASE job[p].kind = "move"
  <2>1. Moving(p)
    BY <1>1, <1>4 DEF IInv, Sound
  <2>2. Moving(p)'
    BY <1>1, <2>1 DEF Moving, NoWrites
  <2> QED
    BY <1>1, <1>4, <2>2, ProceedStep DEF SweepReads, Sound
<1> QED
  BY <1>1, <1>2, <1>3, <1>4, Sweepers

(* What a job of the sweeping kind has written may be committed.           *)
LEMMA WrittenIsAdmissible ==
  ASSUME IInv, NEW p \in Txns, pc[p] = "close"
  PROVE  Admissible(p, writes[p]) /\ DOMAIN writes[p] = DOMAIN NoWrites
<1> DEFINE t == job[p].trade
<1>1. CASE job[p].kind = "accept" /\ writes[p] = StatusOf(t, "cancelled")
  <2>1. t \in Trades /\ Held(p, t) /\ db.status[t] = "pending"
    BY <1>1, AcceptIsSound DEF Accepting
  <2>2. \A s \in Trades : Pinned(writes[p], s) = {}
    BY <1>1 DEF Pinned, StatusOf, NoWrites
  <2>3. \A s \in Trades : Balanced(writes[p], s)
    BY <1>1, <2>1, <2>2 DEF Balanced, StatusOf, NoWrites
  <2> QED
    BY <1>1, <2>1, <2>2, <2>3 DEF Admissible, MayChange, StatusOf, NoWrites
<1>2. ASSUME job[p].kind = "accept", NEW P \in SUBSET Copies, writes[p] = PinsOf(t, P),
             Cardinality(P) = TradeRows[t].quantity,
             \A c \in P : Held(p, c) /\ Free(c)
      PROVE  Admissible(p, writes[p]) /\ DOMAIN writes[p] = DOMAIN NoWrites
  <2>1. t \in Trades /\ Held(p, t) /\ db.status[t] = "pending"
    BY <1>2, AcceptIsSound DEF Accepting
  <2>2. Pinned(writes[p], t) = P /\ \A s \in Trades \ {t} : Pinned(writes[p], s) = {}
    BY <1>2 DEF Pinned, PinsOf, NoWrites
  <2>3. \A s \in Trades : Balanced(writes[p], s)
    BY <1>2, <2>1, <2>2 DEF Balanced, PinsOf, NoWrites
  <2> QED
    BY <1>2, <2>1, <2>2, <2>3 DEF Admissible, MayChange, PinsOf, NoWrites
<1>3. CASE job[p].kind = "dispose"
  <2>1. /\ writes[p] = [NoWrites EXCEPT !.deleted = job[p].copies]
        /\ \A c \in job[p].copies : Free(c)
    BY <1>3 DEF IInv, Sound, Disposing
  <2>2. \A s \in Trades : Pinned(writes[p], s) = {}
    BY <2>1 DEF Pinned, NoWrites
  <2>3. \A s \in Trades : Balanced(writes[p], s)
    BY <2>1, <2>2 DEF Balanced, NoWrites
  <2> QED
    BY <1>3, <2>1, <2>2, <2>3 DEF Admissible, NoWrites
<1>4. CASE job[p].kind = "move"
  <2>1. writes[p] = [NoWrites EXCEPT !.moved = job[p].copies] /\ job[p].copies \subseteq Copies
    BY <1>4 DEF IInv, Sound, Moving, JobInv, FitJob
  <2>2. \A s \in Trades : Pinned(writes[p], s) = {}
    BY <2>1 DEF Pinned, NoWrites
  <2>3. \A s \in Trades : Balanced(writes[p], s)
    BY <2>1, <2>2 DEF Balanced, NoWrites
  <2> QED
    BY <1>4, <2>1, <2>2, <2>3 DEF Admissible, NoWrites
<1>5. job[p].kind = "accept" => writes[p] = StatusOf(t, "cancelled") \/ Pinning(p, t)
  BY AcceptIsSound DEF Accepting
<1> QED
  BY <1>1, <1>2, <1>3, <1>4, <1>5, Sweepers DEF Pinning

LEMMA SweepingIsAdmissible ==
  ASSUME NEW p \in Txns, NEW w, Admissible(p, w), DOMAIN w = DOMAIN NoWrites,
         NEW closed \in SUBSET Trades, closed \cap DOMAIN w.status = {},
         \A t \in closed : Held(p, t) /\ db.status[t] = "pending"
  PROVE  Admissible(p, [w EXCEPT !.status = [t \in closed \cup DOMAIN w.status |->
                          IF t \in closed THEN "cancelled" ELSE w.status[t]]])
<1> DEFINE all == [t \in closed \cup DOMAIN w.status |->
                     IF t \in closed THEN "cancelled" ELSE w.status[t]]
           v   == [w EXCEPT !.status = all]
<1>1. /\ v.status = all /\ v.pinned = w.pinned /\ v.released = w.released
      /\ v.lent = w.lent /\ v.deleted = w.deleted /\ v.moved = w.moved /\ v.added = w.added
  BY DEF NoWrites
<1> HIDE DEF v
<1>2. \A t \in Trades : Pinned(v, t) = Pinned(w, t)
  BY <1>1 DEF Pinned
<1>3. ASSUME NEW t \in Trades PROVE Balanced(v, t)
  <2>1. Balanced(w, t)
    BY DEF Admissible
  <2>2. CASE t \in closed
    <3>1. t \notin DOMAIN w.status /\ t \in DOMAIN all /\ all[t] = "cancelled"
      BY <2>2
    <3>2. Pinned(w, t) = {} /\ db.status[t] = "pending"
      BY <2>1, <2>2, <3>1 DEF Balanced
    <3> QED
      BY <1>1, <1>2, <3>1, <3>2 DEF Balanced
  <2>3. CASE t \notin closed
    <3>1. /\ t \in DOMAIN all <=> t \in DOMAIN w.status
          /\ t \in DOMAIN w.status => all[t] = w.status[t]
      BY <2>3
    <3> QED
      BY <1>1, <1>2, <2>1, <3>1 DEF Balanced
  <2> QED
    BY <2>2, <2>3
<1>4. \A t \in Trades \cap DOMAIN all : MayChange(p, t)
  BY DEF Admissible, MayChange
<1>5. Admissible(p, v)
  BY <1>1, <1>2, <1>3, <1>4 DEF Admissible
<1> QED
  BY <1>5 DEF v

LEMMA SweepClosesStep ==
  ASSUME IInv, NEW p \in Txns, SweepCloses(p)
  PROVE  IInv' /\ Careful(p)
<1> DEFINE own    == writes[p].status
           doomed == {t \in Trades : holder[t] = p} \ DOMAIN own
           closed == {t \in doomed : db.status[t] = "pending"}
           w      == [writes[p] EXCEPT !.status = [t \in closed \cup DOMAIN own |->
                        IF t \in closed THEN "cancelled" ELSE own[t]]]
<1>1. pc[p] = "close" /\ Commit(p, w)
  BY DEF SweepCloses
<1>2. Admissible(p, writes[p]) /\ DOMAIN writes[p] = DOMAIN NoWrites
  BY <1>1, WrittenIsAdmissible
<1>3. /\ closed \subseteq Trades /\ closed \cap DOMAIN own = {}
      /\ \A t \in closed : Held(p, t) /\ db.status[t] = "pending"
  BY DEF Held, Rows
<1> HIDE DEF closed
<1>4. Admissible(p, w)
  BY <1>2, <1>3, SweepingIsAdmissible
<1> HIDE DEF w
<1> QED
  BY <1>1, <1>4, CommitStep

-----------------------------------------------------------------------------
(* createLoan, resetCollections, cancelTrade, addCopies, createTrade *)

LEMMA LendReadsStep ==
  ASSUME IInv, NEW p \in Txns, LendReads(p)
  PROVE  IInv'
<1> DEFINE free == db.home \ (Reserved(db) \cup db.lent)
<1>1. CASE Proceed(p, "write", NoWrites, free, free)
  <2>1. pc'[p] = "write" /\ job' = job /\ found'[p] = free /\ wants'[p] = free
    BY <1>1 DEF Proceed, IInv, JobInv
  <2>2. Sound(p)'
    BY <2>1 DEF LendReads, At, Sound, Lending, HeldOrWanted
  <2> QED
    BY <1>1, <2>2, ProceedStep
<1> QED
  BY <1>1, FailStep DEF LendReads

LEMMA LendPinsStep ==
  ASSUME IInv, NEW p \in Txns, LendPins(p)
  PROVE  IInv' /\ (Careful(p) \/ db' = db)
<1>1. CASE Fail(p)
  BY <1>1, FailStep DEF Fail
<1>2. ASSUME NEW P \in SUBSET Lendable(p), P \cap db.lent = {},
             Commit(p, [NoWrites EXCEPT !.lent = P])
      PROVE  IInv' /\ (Careful(p) \/ db' = db)
  <2> DEFINE w == [NoWrites EXCEPT !.lent = P]
  <2>1. \A c \in P : Held(p, c) /\ Free(c)
    BY <1>2 DEF LendPins, At, IInv, Sound, Lending, HeldOrWanted, Lendable, Free
  <2>2. \A t \in Trades : Pinned(w, t) = {}
    BY DEF Pinned, NoWrites
  <2>3. \A t \in Trades : Balanced(w, t)
    BY <2>2 DEF Balanced, NoWrites
  <2>4. Admissible(p, w)
    BY <2>1, <2>2, <2>3 DEF Admissible, NoWrites
  <2> QED
    BY <1>2, <2>4, CommitStep
<1> QED
  BY <1>1, <1>2 DEF LendPins

LEMMA ResetIsSound ==
  ASSUME IInv, NEW p \in Txns, job[p].kind = "reset", pc[p] \notin {"committed", "failed"}
  PROVE  Resetting(p)
  BY DEF IInv, Sound

LEMMA ResetReadsStep ==
  ASSUME IInv, NEW p \in Txns, ResetReads(p)
  PROVE  IInv'
<1>1. /\ pc'[p] = "write" /\ job' = job /\ db' = db /\ job[p].kind = "reset"
      /\ found'[p] = db.home /\ wants'[p] = db.home
  BY DEF ResetReads, At, Proceed, IInv, JobInv
<1>2. Resetting(p)'
  BY <1>1 DEF Resetting, HeldOrWanted
<1> QED
  BY <1>1, <1>2, ProceedStep DEF ResetReads, Sound

LEMMA ResetChecksStep ==
  ASSUME IInv, NEW p \in Txns, ResetChecks(p)
  PROVE  IInv'
<1>1. CASE MayReset(p) /\ Proceed(p, "delete", NoWrites, {}, db.home)
  <2>1. /\ pc'[p] = "delete" /\ job' = job /\ db' = db /\ holder' = holder
        /\ job[p].kind = "reset" /\ AddsApart' = AddsApart
    BY <1>1 DEF ResetChecks, At, Proceed, IInv, JobInv, AddsApart
  <2>2. /\ \A c \in found[p] : Held(p, c)
        /\ AddsApart => db.home \subseteq found[p]
    BY ResetIsSound DEF ResetChecks, At, Resetting, HeldOrWanted
  <2>3. AddsApart => \A c \in db.home : Held(p, c)' /\ Free(c)'
    BY <1>1, <2>1, <2>2 DEF MayReset, Held, Free
  <2>4. Resetting(p)'
    BY <2>1, <2>3 DEF Resetting
  <2> QED
    BY <1>1, <2>1, <2>4, ProceedStep DEF Sound
<1> QED
  BY <1>1, FailStep DEF ResetChecks

LEMMA ResetDeletesStep ==
  ASSUME IInv, NEW p \in Txns, ResetDeletes(p)
  PROVE  IInv' /\ Careful(p)
<1> DEFINE gone == {c \in db.home : holder[c] = p}
           w    == [NoWrites EXCEPT !.deleted = gone]
<1>1. AddsApart => \A c \in gone : Free(c)
  BY ResetIsSound DEF ResetDeletes, At, Resetting
<1>2. \A t \in Trades : Pinned(w, t) = {}
  BY DEF Pinned, NoWrites
<1>3. \A t \in Trades : Balanced(w, t)
  BY <1>2 DEF Balanced, NoWrites
<1>4. Admissible(p, w)
  BY <1>1, <1>2, <1>3 DEF Admissible, NoWrites
<1> QED
  BY <1>4, CommitStep DEF ResetDeletes

LEMMA CancelWritesStep ==
  ASSUME IInv, NEW p \in Txns, CancelWrites(p)
  PROVE  IInv' /\ (Careful(p) \/ db' = db)
<1> DEFINE t == job[p].trade
           w == [NoWrites EXCEPT !.status = [s \in {t} |-> "cancelled"], !.released = {t}]
<1>1. CASE Fail(p)
  BY <1>1, FailStep DEF Fail
<1>2. CASE db.status[t] \in {"pending", "reserved"} /\ Commit(p, w)
  <2>1. t \in Trades /\ Held(p, t)
    BY DEF CancelWrites, At, IInv, Sound, Cancelling, HeldOrWanted, JobInv, FitJob
  <2>2. \A s \in Trades : Pinned(w, s) = {}
    BY DEF Pinned, NoWrites
  <2>3. \A s \in Trades : Balanced(w, s)
    BY <2>2 DEF Balanced, NoWrites
  <2>4. Admissible(p, w)
    BY <1>2, <2>1, <2>2, <2>3 DEF Admissible, MayChange, NoWrites
  <2> QED
    BY <1>2, <2>4, CommitStep
<1> QED
  BY <1>1, <1>2 DEF CancelWrites

LEMMA AddWritesStep ==
  ASSUME IInv, NEW p \in Txns, AddWrites(p)
  PROVE  IInv' /\ (Careful(p) \/ db' = db)
<1> DEFINE w == [NoWrites EXCEPT !.added = job[p].copies]
<1>1. CASE Fail(p)
  BY <1>1, FailStep DEF Fail
<1>2. CASE Commit(p, w)
  <2>1. job[p].kind = "add" /\ job[p].copies \subseteq Copies
    BY DEF AddWrites, At, IInv, JobInv, FitJob
  <2>2. \A t \in Trades : Pinned(w, t) = {}
    BY DEF Pinned, NoWrites
  <2>3. \A t \in Trades : Balanced(w, t)
    BY <2>2 DEF Balanced, NoWrites
  <2>4. Admissible(p, w)
    BY <2>1, <2>2, <2>3 DEF Admissible, NoWrites
  <2> QED
    BY <1>2, <2>4, CommitStep
<1> QED
  BY <1>1, <1>2 DEF AddWrites

LEMMA OfferReadsStep ==
  ASSUME IInv, NEW p \in Txns, OfferReads(p)
  PROVE  IInv'
<1> DEFINE t == job[p].trade
<1>1. CASE db.status[t] = "none" /\ Proceed(p, "write", StatusOf(t, "pending"), {}, {})
  <2>1. job[p].kind = "offer" /\ Held(p, TradeRows[t].group)
    BY DEF OfferReads, At, IInv, Sound, Offering, HeldOrWanted
  <2>2. /\ pc'[p] = "write" /\ job' = job /\ db' = db /\ holder' = holder
        /\ writes'[p] = StatusOf(t, "pending")
    BY <1>1 DEF Proceed, IInv, JobInv
  <2>3. Offering(p)'
    BY <1>1, <2>1, <2>2 DEF Offering, Held, StatusOf, NoWrites
  <2> QED
    BY <1>1, <2>1, <2>2, <2>3, ProceedStep DEF Sound
<1> QED
  BY <1>1, FailStep DEF OfferReads, StatusOf

LEMMA OfferWritesStep ==
  ASSUME IInv, NEW p \in Txns, OfferWrites(p)
  PROVE  IInv' /\ Careful(p)
<1> DEFINE t == job[p].trade
           w == writes[p]
<1>1. /\ t \in Trades /\ w = StatusOf(t, "pending")
      /\ db.status[t] = "none" /\ Held(p, TradeRows[t].group)
  BY DEF OfferWrites, At, IInv, Sound, Offering, JobInv, FitJob
<1>2. \A s \in Trades : Pinned(w, s) = {}
  BY <1>1 DEF Pinned, StatusOf, NoWrites
<1>3. \A s \in Trades : Balanced(w, s)
  BY <1>1, <1>2 DEF Balanced, StatusOf, NoWrites
<1>4. Admissible(p, w)
  BY <1>1, <1>2, <1>3 DEF Admissible, MayChange, StatusOf, NoWrites
<1> QED
  BY <1>4, CommitStep DEF OfferWrites

(* At the start no trade is reserved and nothing is lent.                  *)
LEMMA InitIsSound == Init => IInv
<1> SUFFICES ASSUME Init PROVE IInv
  OBVIOUS
<1> PICK s \in Starts :
         /\ job = s.jobs
         /\ db = [home |-> s.home, pooled |-> {}, offered |-> s.offered,
                  pins |-> [t \in Trades |-> {}], lent |-> {},
                  status |-> [t \in Trades |->
                                IF t \in InitPending THEN "pending" ELSE "none"]]
  BY DEF Init, StartDb
<1>1. JobInv
  BY TxnAssumption DEF Init, JobInv
<1>2. DbInv
  <2>1. Existing(db) \subseteq Copies
    <3>1. db.home = s.home /\ db.pooled = {}
      OBVIOUS
    <3>2. s.home \subseteq Copies
      BY TxnAssumption
    <3> QED
      BY <3>1, <3>2 DEF Existing
  <2>2. \A t \in Trades : db.pins[t] = {} /\ db.status[t] # "reserved"
    OBVIOUS
  <2>3. ReservedIsCovered
    BY <2>2 DEF ReservedIsCovered
  <2>4. PromisedToOne
    BY <2>2 DEF PromisedToOne
  <2> QED
    BY <2>1, <2>3, <2>4 DEF DbInv
<1>3. ASSUME NEW p \in Txns PROVE Sound(p)
  <2>1. /\ pc[p] = FirstStep(job[p]) /\ writes[p] = NoWrites
        /\ \A r \in FirstRows(job[p]) : HeldOrWanted(p, r)
    BY DEF Init, HeldOrWanted
  <2>2. FitJob(job[p])
    BY <1>1 DEF JobInv
  <2>3. CASE job[p].kind \in {"accept", "cancel"}
    BY <2>1, <2>3 DEF FirstStep, FirstRows, Sound, Accepting, Cancelling
  <2>4. CASE job[p].kind \in {"dispose", "move"}
    BY <2>1, <2>4 DEF FirstStep, FirstRows, Sound, Disposing, Moving
  <2>5. CASE job[p].kind = "offer"
    BY <2>1, <2>5 DEF FirstStep, FirstRows, Sound, Offering
  <2>6. CASE job[p].kind \in {"lend", "reset", "add"}
    BY <2>1, <2>6 DEF FirstStep, Sound, Lending, Resetting
  <2> QED
    BY <2>2, <2>3, <2>4, <2>5, <2>6 DEF FitJob, Kinds
<1> QED
  BY <1>1, <1>2, <1>3 DEF IInv

(* Every step keeps the invariant, and what it commits is careful.         *)
LEMMA NextIsSound ==
  ASSUME IInv, [Next]_vars
  PROVE  IInv' /\ (db' = db \/ \E p \in Txns : Careful(p))
<1>1. ASSUME NEW p \in Txns, Step(p)
      PROVE  IInv' /\ (db' = db \/ Careful(p))
  <2>1. ASSUME NEW r \in Rows, Lock(p, r)
        PROVE  IInv' /\ db' = db
    BY <2>1, LockStep DEF Lock
  <2>2. AcceptReads(p) => IInv' /\ db' = db
    BY AcceptReadsStep DEF AcceptReads, Fail, Proceed
  <2>3. AcceptPins(p) => IInv' /\ db' = db
    BY AcceptPinsStep DEF AcceptPins, Fail, Proceed
  <2>4. DisposeDeletes(p) => IInv' /\ db' = db
    BY DisposeDeletesStep DEF DisposeDeletes, Fail, Proceed
  <2>5. MoveWrites(p) => IInv' /\ db' = db
    BY MoveWritesStep DEF MoveWrites, Fail, Proceed
  <2>6. SweepReads(p) => IInv' /\ db' = db
    BY SweepReadsStep DEF SweepReads, Proceed
  <2>7. LendReads(p) => IInv' /\ db' = db
    BY LendReadsStep DEF LendReads, Fail, Proceed
  <2>8. ResetReads(p) => IInv' /\ db' = db
    BY ResetReadsStep DEF ResetReads, Proceed
  <2>9. ResetChecks(p) => IInv' /\ db' = db
    BY ResetChecksStep DEF ResetChecks, Fail, Proceed
  <2>10. OfferReads(p) => IInv' /\ db' = db
    BY OfferReadsStep DEF OfferReads, Fail, Proceed
  <2> QED
    BY <1>1, <2>1, <2>2, <2>3, <2>4, <2>5, <2>6, <2>7, <2>8, <2>9, <2>10, SweepClosesStep,
       LendPinsStep, ResetDeletesStep, CancelWritesStep, AddWritesStep, OfferWritesStep
       DEF Step
<1>2. ASSUME NEW p \in Txns, DeadlockAbort(p)
      PROVE  IInv' /\ db' = db
  BY <1>2, FailStep DEF DeadlockAbort, Fail
<1>3. CASE UNCHANGED vars
  <2>1. JobInv' /\ DbInv'
    BY <1>3 DEF vars, IInv, JobInv, DbInv, PromisedToOne, ReservedIsCovered, AddsApart
  <2>2. ASSUME NEW p \in Txns PROVE Sound(p)'
    <3>1. Aside(p, p)
      BY <1>3 DEF vars, Aside, Held, HeldOrWanted
    <3> QED
      BY <3>1, OthersStaySound DEF IInv, JobInv
  <2> QED
    BY <1>3, <2>1, <2>2 DEF vars, IInv
<1> QED
  BY <1>1, <1>2, <1>3 DEF Next

LEMMA AlwaysSound == Spec => []IInv
<1>1. IInv /\ [Next]_vars => IInv'
  BY NextIsSound
<1> QED
  BY InitIsSound, <1>1, PTL DEF Spec

-----------------------------------------------------------------------------
(* The theorems. *)

(* No copy is promised to two trades, or both promised and lent: an        *)
(* acceptance and a loan each check again under the row locks what they    *)
(* read before, and hold the rows until they commit.                       *)
THEOREM PromisedOnlyOnce == Spec => []PromisedToOne
<1>1. IInv => PromisedToOne
  BY DEF IInv, DbInv
<1> QED
  BY AlwaysSound, <1>1, PTL

(* No copies are added beside a reset of the collections: resetCollections *)
(* checks the copies it has listed and deletes also those added since.     *)
NoAddBesideReset ==
  \A s \in Starts : \A p, q \in Txns :
    s.jobs[p].kind = "add" => s.jobs[q].kind # "reset"

LEMMA AlwaysApart == ASSUME NoAddBesideReset PROVE Spec => []AddsApart
<1>1. Init => AddsApart
  BY DEF Init, AddsApart, NoAddBesideReset
<1>2. AddsApart /\ [Next]_vars => AddsApart'
  <2> SUFFICES ASSUME AddsApart, [Next]_vars PROVE AddsApart'
    OBVIOUS
  <2>1. job' = job
    BY DEF Next, vars, Step, Lock, DeadlockAbort, Fail, Commit, Proceed, AcceptReads,
           AcceptPins, DisposeDeletes, MoveWrites, SweepReads, SweepCloses, LendReads,
           LendPins, ResetReads, ResetChecks, ResetDeletes, CancelWrites, AddWrites,
           OfferReads, OfferWrites
  <2> QED
    BY <2>1 DEF AddsApart
<1> QED
  BY <1>1, <1>2, PTL DEF Spec

(* Unless copies are added beside a reset, every reserved trade keeps      *)
(* exactly the copies it was promised, and no other trade has any.         *)
THEOREM ReservedStaysCovered ==
  ASSUME NoAddBesideReset
  PROVE  Spec => []ReservedIsCovered
<1>1. IInv /\ AddsApart => ReservedIsCovered
  BY DEF IInv, DbInv
<1> QED
  BY AlwaysSound, AlwaysApart, <1>1, PTL

(* Unless copies are added beside a reset, no step deletes a copy that is  *)
(* out on a loan or loses the loan.                                        *)
THEOREM LentStaysLent ==
  ASSUME NoAddBesideReset
  PROVE  Spec => LoansKept
<1> DEFINE Kept == db.lent \subseteq db'.lent
<1>1. IInv /\ AddsApart /\ [Next]_vars => [Kept]_vars
  <2> SUFFICES ASSUME IInv, AddsApart, [Next]_vars PROVE Kept
    OBVIOUS
  <2>1. CASE db' = db
    BY <2>1
  <2>2. ASSUME NEW p \in Txns, Careful(p) PROVE Kept
    BY <2>2 DEF Careful
  <2> QED
    BY <2>1, <2>2, NextIsSound
<1>2. Spec => [][Kept]_vars
  <2> HIDE DEF Kept
  <2> QED
    BY AlwaysSound, AlwaysApart, <1>1, PTL DEF Spec
<1> QED
  BY <1>2 DEF LoansKept
-----------------------------------------------------------------------------
(* What a step of one transaction leaves to the others. *)

Leaves(p, q) ==
  /\ job' = job /\ pc'[q] = pc[q] /\ writes'[q] = writes[q] /\ found'[q] = found[q]
  /\ \A r : Held(q, r) => Held(q, r)'
  /\ \A r : HeldOrWanted(q, r) => HeldOrWanted(q, r)'

LEMMA LockLeaves ==
  ASSUME IInv, NEW p \in Txns, NEW q \in Txns, NEW r \in Rows, Lock(p, r)
  PROVE  Leaves(p, q) /\ db' = db
<1>1. \A x : Held(q, x) => Held(q, x)'
  BY TxnAssumption DEF Lock, Held, IInv, JobInv
<1>2. \A x : HeldOrWanted(q, x) => HeldOrWanted(q, x)'
  <2> SUFFICES ASSUME NEW x, HeldOrWanted(q, x) PROVE HeldOrWanted(q, x)'
    OBVIOUS
  <2>1. CASE x \in wants[q]
    BY <2>1 DEF Lock, Held, HeldOrWanted, IInv, JobInv
  <2> QED BY <1>1, <2>1 DEF HeldOrWanted
<1> QED BY <1>1, <1>2 DEF Leaves, Lock

LEMMA EndLeaves ==
  ASSUME IInv, NEW p \in Txns, NEW q \in Txns, q # p,
         Fail(p) \/ \E w : Commit(p, w)
  PROVE  Leaves(p, q)
<1>1. /\ job' = job /\ writes' = writes /\ found' = found /\ holder' = Released(p)
      /\ pc'[q] = pc[q] /\ wants'[q] = wants[q]
  BY DEF Fail, Commit, IInv, JobInv
<1>2. \A x : Held(q, x) => Held(q, x)'
  BY <1>1 DEF Held, Released
<1> QED BY <1>1, <1>2 DEF Leaves, HeldOrWanted

LEMMA ProceedLeaves ==
  ASSUME IInv, NEW p \in Txns, NEW q \in Txns, q # p,
         NEW s, NEW w, NEW copies, NEW rows, Proceed(p, s, w, copies, rows)
  PROVE  Leaves(p, q) /\ db' = db
BY DEF Proceed, Leaves, Held, HeldOrWanted, IInv, JobInv

-----------------------------------------------------------------------------
(* The pending trades and the supplies as rows of the allocation. *)

RowOf(t) == [id |-> t, group |-> TradeRows[t].group, quantity |-> TradeRows[t].quantity,
             initiator |-> TradeRows[t].initiator]

LEMMA PendingRows ==
  ASSUME NEW d
  PROVE  /\ \A t \in Trades : d.status[t] = "pending" => RowOf(t) \in PendingIn(d)
         /\ \A r \in PendingIn(d) : /\ r.id \in Trades /\ r = RowOf(r.id)
                                    /\ d.status[r.id] = "pending"
BY DEF PendingIn, RowOf

LEMMA PendingAreRows ==
  ASSUME NEW d, NEW e, Existing(d) \subseteq Copies
  PROVE  AreRows(PendingIn(e)) /\ Stocked(PendingIn(e), Supplies(d))
<1>1. IsFiniteSet(PendingIn(e))
  <2> DEFINE T == {t \in Trades : e.status[t] = "pending"}
             f == [t \in T |-> RowOf(t)]
  <2>1. IsFiniteSet(T)
    BY TxnAssumption, FS_Subset
  <2>2. PendingIn(e) = {RowOf(t) : t \in T}
    BY DEF PendingIn, RowOf
  <2>3. f \in Surjection(T, PendingIn(e))
    BY <2>2 DEF Surjection
  <2> HIDE DEF T, f
  <2> QED BY <2>1, <2>3, FS_Surjection
<1>2. \A r \in PendingIn(e) : r.id \in Nat /\ r.quantity \in Nat /\ r.group \in Groups
  BY TxnAssumption, PendingRows DEF RowOf
<1>3. \A r, q \in PendingIn(e) : r.id = q.id => r = q
  BY PendingRows
<1>4. \A g \in Groups : /\ Supplies(d)[g] = Supply(d, g)
                        /\ Supply(d, g) \subseteq Copies
  BY DEF Supplies, Supply
<1>5. \A g \in Groups : IsFiniteSet(Supply(d, g)) /\ Ranked(g, Supply(d, g))
  <2> TAKE g \in Groups
  <2>1. SupplyOrder[g] \in [Copies -> Nat]
    BY TxnAssumption
  <2> QED BY <1>4, <2>1, TxnAssumption, FS_Subset DEF Ranked
<1>6. Stocked(PendingIn(e), Supplies(d))
  BY <1>2, <1>4, <1>5 DEF Stocked
<1> QED BY <1>1, <1>2, <1>3, <1>6 DEF AreRows

(* Trades that the sweep would leave alone are left alone when others are  *)
(* no longer pending.                                                      *)
LEMMA FewerStayFillable ==
  ASSUME NEW d, NEW e, Existing(d) \subseteq Copies,
         NEW more \in SUBSET PendingIn(e), AutoCancelled(more, Supplies(d)) = {},
         NEW rest \in SUBSET more
  PROVE  AutoCancelled(rest, Supplies(d)) = {}
<1>1. AreRows(more) /\ Stocked(more, Supplies(d))
  BY PendingAreRows, FS_Subset DEF AreRows, Stocked
<1> QED BY <1>1, SurvivorsAreFillable

LEMMA FewerPending ==
  ASSUME NEW d, NEW e,
         \A t \in Trades : e.status[t] = "pending" => d.status[t] = "pending"
  PROVE  PendingIn(e) \subseteq PendingIn(d)
BY DEF PendingIn

(* The copies that writes take out of the supply.                          *)
Loss(w) == {c \in Copies : \E t \in Trades : <<t, c>> \in w.pinned} \cup w.deleted

LEMMA SupplyAfterLoss ==
  ASSUME NEW d, NEW w, NEW g \in Groups, Existing(d) \subseteq Copies,
         w.lent = {}, w.moved = {}, w.added = {},
         \A t \in Trades \cap w.released : d.pins[t] = {}
  PROVE  Supply(Applied(w, d), g) = Supply(d, g) \ Loss(w)
<1> DEFINE e == Applied(w, d)
<1>1. /\ e.offered[g] = d.offered[g] \ w.deleted /\ e.lent = d.lent \ w.deleted
      /\ Existing(e) = Existing(d) \ w.deleted
  BY DEF Applied, Existing
<1>2. \A t \in Trades : e.pins[t] = (d.pins[t] \cup {c \in Copies : <<t, c>> \in w.pinned})
                                      \ w.deleted
  BY DEF Applied
<1>3. \A c : c \in Reserved(e) <=>
        /\ c \notin w.deleted
        /\ c \in Reserved(d) \/ (c \in Copies /\ \E t \in Trades : <<t, c>> \in w.pinned)
  <2>1. \A t \in Trades : \A c :
          c \in e.pins[t] <=> /\ c \notin w.deleted
                              /\ c \in d.pins[t] \/ (c \in Copies /\ <<t, c>> \in w.pinned)
    BY <1>2
  <2> HIDE DEF e
  <2>2. \A c : /\ c \in Reserved(e) <=> \E t \in Trades : c \in e.pins[t]
               /\ c \in Reserved(d) <=> \E t \in Trades : c \in d.pins[t]
    BY ReservedMembers
  <2>3. ASSUME NEW c, c \in Reserved(e)
        PROVE  /\ c \notin w.deleted
               /\ c \in Reserved(d) \/ (c \in Copies /\ \E t \in Trades : <<t, c>> \in w.pinned)
    BY <2>1, <2>2, <2>3
  <2>4. ASSUME NEW c, c \notin w.deleted, c \in Reserved(d)
        PROVE  c \in Reserved(e)
    BY <2>1, <2>2, <2>4
  <2>5. ASSUME NEW c \in Copies, c \notin w.deleted, NEW t \in Trades, <<t, c>> \in w.pinned
        PROVE  c \in Reserved(e)
    BY <2>1, <2>2, <2>5
  <2> QED BY <2>3, <2>4, <2>5
<1> HIDE DEF e
<1>4. \A c : c \in Supply(e, g) <=> c \in Supply(d, g) /\ c \notin Loss(w)
  BY <1>1, <1>3 DEF Supply, Loss
<1> QED BY <1>4 DEF e

-----------------------------------------------------------------------------
(* The sweeps.  Who takes copies out of the supply while it sweeps is the  *)
(* only one: an acceptance holds every copy that was free when it read,    *)
(* and two disposals share a copy.  So what a sweep has read stays true    *)
(* until it commits, but for trades that are no longer pending.            *)

SweepRun == Ran({"accept", "cancel", "dispose"}) /\ DisposalsMeet /\ NothingReleased

OfferedAlike == \A g, h \in Groups : db.offered[g] = db.offered[h]
NoneReleased == \A p \in Txns : job[p].kind = "cancel" => db.status[job[p].trade] # "reserved"

(* An acceptance has found, and then holds, whatever is in the supply.     *)
Covers(p) ==
  job[p].kind = "accept" =>
    \A g \in Groups : \A c \in Supply(db, g) :
      /\ pc[p] = "write" => c \in found[p]
      /\ pc[p] \in {"sweep", "close"} => Held(p, c)

(* The trades a sweep does not close can be filled from what it leaves.    *)
Remaining(p) == {r \in PendingIn(Seen(p)) : ~HeldOrWanted(p, r.id)}
Closes(p) == pc[p] = "close" => AutoCancelled(Remaining(p), Supplies(Seen(p))) = {}

SweepInv ==
  /\ OfferedAlike /\ Fillable(db) /\ NoneReleased
  /\ \A p \in Txns : Covers(p) /\ Closes(p)

LEMMA SweepSteps ==
  ASSUME SweepRun, NEW p \in Txns, Step(p) \/ DeadlockAbort(p)
  PROVE  \/ \E r \in Rows : Lock(p, r)
         \/ Fail(p)
         \/ AcceptReads(p) \/ AcceptPins(p) \/ DisposeDeletes(p)
         \/ SweepReads(p) \/ SweepCloses(p) \/ CancelWrites(p)
<1>1. job[p].kind \in {"accept", "cancel", "dispose"}
  BY DEF SweepRun, Ran
<1>2. /\ ~MoveWrites(p) /\ ~LendReads(p) /\ ~LendPins(p)
      /\ ~ResetReads(p) /\ ~ResetChecks(p) /\ ~ResetDeletes(p)
      /\ ~AddWrites(p) /\ ~OfferReads(p) /\ ~OfferWrites(p)
  BY <1>1 DEF MoveWrites, LendReads, LendPins, ResetReads, ResetChecks, ResetDeletes,
              AddWrites, OfferReads, OfferWrites, At
<1> QED BY <1>2 DEF Step, DeadlockAbort

LEMMA SweepRunAddsNothing ==
  ASSUME SweepRun PROVE AddsApart
BY DEF SweepRun, Ran, AddsApart

(* What a sweeping transaction writes.                                     *)
LEMMA SweeperWrites ==
  ASSUME IInv, SweepRun, NEW p \in Txns, pc[p] \in {"sweep", "close"}
  PROVE  LET w == writes[p]
         IN  /\ w.lent = {} /\ w.moved = {} /\ w.added = {} /\ w.released = {}
             /\ \A t \in DOMAIN w.status :
                  /\ w.status[t] \in {"cancelled", "reserved"}
                  /\ job[p].kind = "accept" /\ t = job[p].trade
             /\ Loss(w) \subseteq Copies /\ \A c \in Loss(w) : Held(p, c)
             /\ job[p].kind \in {"accept", "dispose"}
             /\ job[p].kind = "dispose" => Loss(w) = job[p].copies
<1> DEFINE w == writes[p]
           t == job[p].trade
<1>0. job[p].kind \in {"accept", "dispose"}
  BY Sweepers DEF SweepRun, Ran
<1>1. CASE job[p].kind = "accept"
  <2>1. w = StatusOf(t, "cancelled") \/ Pinning(p, t)
    BY <1>1, AcceptIsSound DEF Accepting
  <2>2. CASE w = StatusOf(t, "cancelled")
    <3>1. Loss(w) = {}
      BY <2>2 DEF Loss, StatusOf, NoWrites
    <3> QED BY <1>1, <2>2, <3>1 DEF StatusOf, NoWrites
  <2>3. ASSUME NEW P \in SUBSET Copies, w = PinsOf(t, P), \A c \in P : Held(p, c)
        PROVE  /\ w.lent = {} /\ w.moved = {} /\ w.added = {} /\ w.released = {}
               /\ \A s \in DOMAIN w.status : w.status[s] = "reserved" /\ s = t
               /\ Loss(w) \subseteq P
    <3>1. w.pinned = {t} \X P /\ w.deleted = {}
      BY <2>3 DEF PinsOf, NoWrites
    <3>2. Loss(w) \subseteq P
      <4> HIDE DEF w
      <4> QED BY <3>1 DEF Loss
    <3> QED BY <2>3, <3>2 DEF PinsOf, NoWrites
  <2>4. CASE Pinning(p, t)
    <3>1. PICK P \in SUBSET Copies : w = PinsOf(t, P) /\ \A c \in P : Held(p, c)
      BY <2>4 DEF Pinning
    <3> HIDE DEF w, t
    <3>2. /\ w.lent = {} /\ w.moved = {} /\ w.added = {} /\ w.released = {}
          /\ \A s \in DOMAIN w.status : w.status[s] = "reserved" /\ s = t
          /\ Loss(w) \subseteq P
      BY <2>3, <3>1
    <3> QED BY <1>1, <3>1, <3>2 DEF w, t
  <2> QED BY <2>1, <2>2, <2>4
<1>2. CASE job[p].kind = "dispose"
  <2>1. /\ w = [NoWrites EXCEPT !.deleted = job[p].copies]
        /\ \A c \in job[p].copies : Held(p, c)
    BY <1>2 DEF IInv, Sound, Disposing
  <2>2. job[p].copies \subseteq Copies
    BY <1>2 DEF IInv, JobInv, FitJob
  <2>3. Loss(w) = job[p].copies
    BY <2>1, <2>2 DEF Loss, NoWrites
  <2> QED BY <1>2, <2>1, <2>2, <2>3 DEF NoWrites
<1> QED BY <1>0, <1>1, <1>2

(* Only one transaction at a time takes copies out of the supply.          *)
LEMMA OneTaker ==
  ASSUME IInv, SweepInv, SweepRun, NEW p \in Txns, NEW q \in Txns, p # q,
         pc[p] \in {"sweep", "close"}, pc[q] \in {"sweep", "close"},
         NEW g \in Groups, NEW c \in Supply(db, g), c \in Loss(writes[p]),
         NEW h \in Groups, NEW e \in Supply(db, h), e \in Loss(writes[q])
  PROVE  FALSE
<1>1. Held(p, c) /\ Held(q, e)
  BY SweeperWrites
<1>2. /\ job[p].kind \in {"accept", "dispose"} /\ job[q].kind \in {"accept", "dispose"}
      /\ job[p].kind = "dispose" => \A x \in job[p].copies : Held(p, x)
      /\ job[q].kind = "dispose" => \A x \in job[q].copies : Held(q, x)
  BY SweeperWrites
<1>3. CASE job[p].kind = "accept"
  <2>1. Held(p, e)
    BY <1>3 DEF SweepInv, Covers
  <2> QED BY <1>1, <2>1, OneHolder
<1>4. CASE job[q].kind = "accept"
  <2>1. Held(q, c)
    BY <1>4 DEF SweepInv, Covers
  <2> QED BY <1>1, <2>1, OneHolder
<1>5. CASE job[p].kind = "dispose" /\ job[q].kind = "dispose"
  <2>1. PICK x \in job[p].copies : x \in job[q].copies
    BY <1>5 DEF SweepRun, DisposalsMeet
  <2> QED BY <1>2, <1>5, <2>1, OneHolder
<1> QED BY <1>2, <1>3, <1>4, <1>5

LEMMA SuppliesAreSets ==
  ASSUME NEW d, NEW e, \A g \in Groups : Supply(d, g) = Supply(e, g)
  PROVE  Supplies(d) = Supplies(e)
BY DEF Supplies

(* What a sweeping transaction sees.                                       *)
LEMMA SeenIsLess ==
  ASSUME IInv, SweepRun, NEW p \in Txns, pc[p] \in {"sweep", "close"}
  PROVE  /\ Existing(Seen(p)) \subseteq Copies
         /\ \A g \in Groups : Supply(Seen(p), g) = Supply(db, g) \ Loss(writes[p])
         /\ \A t \in Trades : Seen(p).status[t] = "pending" <=>
              t \notin DOMAIN writes[p].status /\ db.status[t] = "pending"
<1> DEFINE w == writes[p]
<1>1. /\ w.lent = {} /\ w.moved = {} /\ w.added = {} /\ w.released = {}
      /\ \A t \in DOMAIN w.status : w.status[t] \in {"cancelled", "reserved"}
  BY SweeperWrites
<1>2. Existing(db) \subseteq Copies
  BY DEF IInv, DbInv
<1>3. Existing(Seen(p)) \subseteq Copies
  BY <1>1, <1>2 DEF Seen, Applied, Existing
<1>4. \A g \in Groups : Supply(Applied(w, db), g) = Supply(db, g) \ Loss(w)
  <2> HIDE DEF w
  <2> QED BY <1>1, <1>2, SupplyAfterLoss
<1>5. \A t \in Trades : Seen(p).status[t] = "pending" <=>
        t \notin DOMAIN w.status /\ db.status[t] = "pending"
  BY <1>1 DEF Seen, Applied
<1> QED BY <1>3, <1>4, <1>5 DEF Seen

(* A step of another transaction that commits nothing.                     *)
LEMMA QuietKeeps ==
  ASSUME IInv, SweepRun, NEW p \in Txns, NEW q \in Txns, Leaves(p, q), db' = db,
         Covers(q), Closes(q)
  PROVE  Covers(q)' /\ Closes(q)'
<1>1. /\ job' = job /\ pc'[q] = pc[q] /\ writes'[q] = writes[q] /\ found'[q] = found[q]
      /\ \A r : Held(q, r) => Held(q, r)'
      /\ \A r : HeldOrWanted(q, r) => HeldOrWanted(q, r)'
  BY DEF Leaves
<1>2. Covers(q)'
  BY <1>1 DEF Covers
<1>3. ASSUME pc[q] = "close"
      PROVE  AutoCancelled(Remaining(q)', Supplies(Seen(q)')) = {}
  <2>1. Seen(q)' = Seen(q)
    BY <1>1 DEF Seen
  <2>2. /\ Remaining(q)' \subseteq Remaining(q) /\ Remaining(q) \subseteq PendingIn(Seen(q))
    BY <1>1, <2>1 DEF Remaining
  <2>3. Existing(Seen(q)) \subseteq Copies
    BY <1>3, SeenIsLess
  <2>4. AutoCancelled(Remaining(q), Supplies(Seen(q))) = {}
    BY <1>3 DEF Closes
  <2>5. AutoCancelled(Remaining(q)', Supplies(Seen(q))) = {}
    BY <2>2, <2>3, <2>4, FewerStayFillable
  <2> QED BY <2>1, <2>5
<1>4. Closes(q)'
  BY <1>1, <1>3 DEF Closes
<1> QED BY <1>2, <1>4

(* Another transaction's commit: it takes nothing out of the supply, or q  *)
(* does not.  It makes no trade pending and leaves none that cannot be     *)
(* filled.                                                                 *)
LEMMA CommitKeepsOthers ==
  ASSUME IInv, DbInv', SweepInv, SweepRun, NEW p \in Txns, NEW q \in Txns, p # q,
         Leaves(p, q), Fillable(db)',
         \A g \in Groups : Supply(db', g) \subseteq Supply(db, g),
         \/ \A g \in Groups : Supply(db', g) = Supply(db, g)
         \/ /\ pc[p] = "close"
            /\ \A g \in Groups : Supply(db', g) = Supply(db, g) \ Loss(writes[p]),
         \A t \in Trades : db'.status[t] = "pending" => db.status[t] = "pending"
  PROVE  Covers(q)' /\ Closes(q)'
<1>1. /\ job' = job /\ pc'[q] = pc[q] /\ writes'[q] = writes[q] /\ found'[q] = found[q]
      /\ \A r : Held(q, r) => Held(q, r)'
      /\ \A r : HeldOrWanted(q, r) => HeldOrWanted(q, r)'
  BY DEF Leaves
<1>2. Covers(q)'
  BY <1>1 DEF SweepInv, Covers
<1> DEFINE w == writes[q]
           e == Applied(w, db')
<1>3. ASSUME pc[q] = "close"
      PROVE  AutoCancelled(Remaining(q)', Supplies(Seen(q)')) = {}
  <2>1. /\ w.lent = {} /\ w.moved = {} /\ w.added = {} /\ w.released = {}
        /\ \A t \in DOMAIN w.status : w.status[t] \in {"cancelled", "reserved"}
    BY <1>3, SweeperWrites
  <2>2. Seen(q)' = e
    BY <1>1 DEF Seen
  <2>3. Existing(db') \subseteq Copies
    BY DEF DbInv
  <2>4. Existing(e) \subseteq Copies
    BY <2>1, <2>3 DEF Applied, Existing
  <2>5. \A g \in Groups : Supply(e, g) = Supply(db', g) \ Loss(w)
    <3>1. \A t \in Trades \cap w.released : (db').pins[t] = {}
      BY <2>1
    <3> HIDE DEF w
    <3> QED BY <2>1, <2>3, <3>1, SupplyAfterLoss
  <2>6. \A t \in Trades : e.status[t] = "pending" <=>
          t \notin DOMAIN w.status /\ (db').status[t] = "pending"
    BY <2>1 DEF Applied
  <2>7. Remaining(q)' \subseteq PendingIn(e)
    BY <2>2 DEF Remaining
  <2> HIDE DEF e
  <2>8. CASE \A g \in Groups : Supply(db', g) \cap Loss(w) = {}
    <3>1. Supplies(e) = Supplies(db')
      BY <2>5, <2>8, SuppliesAreSets
    <3>2. PendingIn(e) \subseteq PendingIn(db')
      BY <2>6, FewerPending
    <3>3. AutoCancelled(PendingIn(db'), Supplies(db')) = {}
      BY DEF Fillable
    <3>4. AutoCancelled(Remaining(q)', Supplies(db')) = {}
      BY <2>3, <2>7, <3>2, <3>3, FewerStayFillable
    <3> QED BY <2>2, <3>1, <3>4
  <2>9. ASSUME NEW g \in Groups, NEW c \in Supply(db', g), c \in Loss(w)
        PROVE  AutoCancelled(Remaining(q)', Supplies(Seen(q)')) = {}
    <3>1. \A h \in Groups : Supply(db', h) = Supply(db, h)
      <4> SUFFICES ASSUME NEW h \in Groups, Supply(db', h) # Supply(db, h) PROVE FALSE
        OBVIOUS
      <4>1. pc[p] = "close" /\ Supply(db', h) = Supply(db, h) \ Loss(writes[p])
        OBVIOUS
      <4>2. PICK x \in Supply(db, h) : x \in Loss(writes[p])
        BY <4>1
      <4>3. c \in Supply(db, g)
        BY <2>9
      <4> QED BY <1>3, <2>9, <4>1, <4>2, <4>3, OneTaker
    <3>2. /\ \A h \in Groups : Supply(Seen(q), h) = Supply(db, h) \ Loss(w)
          /\ Existing(Seen(q)) \subseteq Copies
          /\ \A t \in Trades : Seen(q).status[t] = "pending" <=>
               t \notin DOMAIN w.status /\ db.status[t] = "pending"
      BY <1>3, SeenIsLess
    <3>3. Supplies(e) = Supplies(Seen(q))
      BY <2>5, <3>1, <3>2, SuppliesAreSets
    <3>4. PendingIn(e) \subseteq PendingIn(Seen(q))
      BY <2>6, <3>2, FewerPending
    <3>5. Remaining(q)' \subseteq Remaining(q) /\ Remaining(q) \subseteq PendingIn(Seen(q))
      BY <1>1, <2>2, <3>4 DEF Remaining
    <3>6. AutoCancelled(Remaining(q), Supplies(Seen(q))) = {}
      BY <1>3 DEF SweepInv, Closes
    <3>7. AutoCancelled(Remaining(q)', Supplies(Seen(q))) = {}
      BY <3>2, <3>5, <3>6, FewerStayFillable
    <3> QED BY <2>2, <3>3, <3>7
  <2> QED BY <2>8, <2>9
<1>4. Closes(q)'
  BY <1>1, <1>3 DEF Closes
<1> QED BY <1>2, <1>4

(* What the sweep leaves can be filled.                                    *)
LEMMA SweepClosesKeeps ==
  ASSUME IInv, IInv', SweepInv, SweepRun, NEW p \in Txns, SweepCloses(p)
  PROVE  SweepInv'
<1> DEFINE v      == writes[p]
           own    == v.status
           doomed == {t \in Trades : holder[t] = p} \ DOMAIN own
           closed == {t \in doomed : db.status[t] = "pending"}
           all    == [t \in closed \cup DOMAIN own |->
                        IF t \in closed THEN "cancelled" ELSE own[t]]
           w      == [v EXCEPT !.status = all]
<1>1. /\ pc[p] = "close" /\ wants[p] = {} /\ Commit(p, w)
  BY DEF SweepCloses
<1>2. /\ v.lent = {} /\ v.moved = {} /\ v.added = {} /\ v.released = {}
      /\ \A t \in DOMAIN own : /\ own[t] \in {"cancelled", "reserved"}
                               /\ job[p].kind = "accept" /\ t = job[p].trade
  BY <1>1, SweeperWrites
<1>3. DOMAIN v = DOMAIN NoWrites
  BY <1>1, WrittenIsAdmissible
<1>4. /\ w.status = all /\ w.pinned = v.pinned /\ w.deleted = v.deleted
      /\ w.released = {} /\ w.lent = {} /\ w.moved = {} /\ w.added = {}
  BY <1>2, <1>3 DEF NoWrites
<1>5. Loss(w) = Loss(v)
  <2> HIDE DEF w
  <2> QED BY <1>4 DEF Loss
<1>6. /\ \A t \in Trades : db'.status[t] = IF t \in closed THEN "cancelled"
                             ELSE IF t \in DOMAIN own THEN own[t] ELSE db.status[t]
      /\ \A g \in Groups : db'.offered[g] = db.offered[g] \ v.deleted
  <2>1. db' = Applied(w, db)
    BY <1>1 DEF Commit
  <2>2. DOMAIN all = closed \cup DOMAIN own
    OBVIOUS
  <2> HIDE DEF w, closed, all
  <2>3. /\ \A t \in Trades : db'.status[t] = IF t \in DOMAIN all THEN all[t] ELSE db.status[t]
        /\ \A g \in Groups : db'.offered[g] = db.offered[g] \ v.deleted
    BY <1>4, <2>1 DEF Applied
  <2>4. \A t \in closed \cup DOMAIN own : all[t] = IF t \in closed THEN "cancelled" ELSE own[t]
    BY DEF all
  <2> QED BY <2>2, <2>3, <2>4
<1>7. \A g \in Groups : /\ Supply(db', g) = Supply(db, g) \ Loss(v)
                        /\ Supply(db', g) = Supply(Seen(p), g)
  <2>1. db' = Applied(w, db) /\ Existing(db) \subseteq Copies
    BY <1>1 DEF Commit, IInv, DbInv
  <2>2. \A g \in Groups : Supply(Applied(w, db), g) = Supply(db, g) \ Loss(w)
    <3> HIDE DEF w
    <3> QED BY <1>4, <2>1, SupplyAfterLoss
  <2>3. \A g \in Groups : Supply(Seen(p), g) = Supply(db, g) \ Loss(v)
    BY <1>1, SeenIsLess
  <2> HIDE DEF w
  <2> QED BY <1>5, <2>1, <2>2, <2>3
<1>8. \A t \in Trades : db'.status[t] = "pending" =>
        db.status[t] = "pending" /\ t \notin DOMAIN own /\ ~Held(p, t)
  BY <1>2, <1>6 DEF Held
<1> HIDE DEF closed, w, all
<1>9. OfferedAlike'
  BY <1>6 DEF SweepInv, OfferedAlike
<1>10. Fillable(db)'
  <2>1. PendingIn(db') \subseteq Remaining(p)
    <3> SUFFICES ASSUME NEW r \in PendingIn(db') PROVE r \in Remaining(p)
      OBVIOUS
    <3>1. /\ r.id \in Trades /\ r = RowOf(r.id)
          /\ (db').status[r.id] = "pending"
      BY PendingRows
    <3>2. Seen(p).status[r.id] = "pending" /\ ~HeldOrWanted(p, r.id)
      BY <1>1, <1>8, <3>1, SeenIsLess DEF HeldOrWanted
    <3>3. r \in PendingIn(Seen(p))
      BY <3>1, <3>2, PendingRows
    <3> QED BY <3>2, <3>3 DEF Remaining
  <2>2. Existing(Seen(p)) \subseteq Copies
    BY <1>1, SeenIsLess
  <2>3. /\ AutoCancelled(Remaining(p), Supplies(Seen(p))) = {}
        /\ Remaining(p) \subseteq PendingIn(Seen(p))
    BY <1>1 DEF SweepInv, Closes, Remaining
  <2>4. AutoCancelled(PendingIn(db'), Supplies(Seen(p))) = {}
    BY <2>1, <2>2, <2>3, FewerStayFillable
  <2>5. Supplies(db') = Supplies(Seen(p))
    BY <1>7, SuppliesAreSets
  <2> QED BY <2>4, <2>5 DEF Fillable
<1>11. job' = job
  BY <1>1 DEF Commit
<1>12. NoneReleased'
  <2> SUFFICES ASSUME NEW q \in Txns, job[q].kind = "cancel",
                      db'.status[job[q].trade] = "reserved"
               PROVE  FALSE
    BY <1>11 DEF NoneReleased
  <2> DEFINE t == job[q].trade
  <2>1. t \in Trades /\ db.status[t] # "reserved"
    BY DEF SweepInv, NoneReleased, IInv, JobInv, FitJob
  <2>2. t \in DOMAIN own
    BY <1>6, <2>1
  <2>3. job[p].kind = "accept" /\ t = job[p].trade
    BY <1>2, <2>2
  <2> QED BY <2>3 DEF SweepRun, NothingReleased
<1>13. ASSUME NEW q \in Txns PROVE Covers(q)' /\ Closes(q)'
  <2>1. CASE q = p
    <3>1. pc'[p] = "committed"
      BY <1>1 DEF Commit, IInv, JobInv
    <3> QED BY <2>1, <3>1 DEF Covers, Closes
  <2>2. CASE q # p
    <3>1. Leaves(p, q)
      BY <1>1, <2>2, EndLeaves
    <3> QED BY <1>1, <1>7, <1>8, <1>10, <2>2, <3>1, CommitKeepsOthers DEF IInv
  <2> QED BY <2>1, <2>2
<1> QED BY <1>9, <1>10, <1>12, <1>13 DEF SweepInv

(* A cancelled trade has no pins to give back.                             *)
LEMMA CancelKeeps ==
  ASSUME IInv, IInv', SweepInv, SweepRun, NEW p \in Txns, CancelWrites(p), ~Fail(p)
  PROVE  SweepInv'
<1> DEFINE t == job[p].trade
           w == [NoWrites EXCEPT !.status = [s \in {t} |-> "cancelled"], !.released = {t}]
<1>1. /\ job[p].kind = "cancel" /\ t \in Trades /\ Commit(p, w)
      /\ db.status[t] \in {"pending", "reserved"}
  BY DEF CancelWrites, At, IInv, JobInv, FitJob
<1>2. db.status[t] # "reserved" /\ db.pins[t] = {}
  BY <1>1, SweepRunAddsNothing DEF SweepInv, NoneReleased, IInv, DbInv, ReservedIsCovered
<1>3. /\ w.released = {t} /\ w.lent = {} /\ w.moved = {} /\ w.added = {} /\ w.deleted = {}
      /\ w.pinned = {} /\ w.status = [s \in {t} |-> "cancelled"]
  BY DEF NoWrites
<1> HIDE DEF w
<1>4. db' = Applied(w, db) /\ Existing(db) \subseteq Copies
  BY <1>1 DEF Commit, IInv, DbInv
<1>5. \A g \in Groups : Supply(db', g) = Supply(db, g)
  <2>1. \A g \in Groups : Supply(Applied(w, db), g) = Supply(db, g) \ Loss(w)
    BY <1>2, <1>3, <1>4, SupplyAfterLoss
  <2>2. Loss(w) = {}
    BY <1>3 DEF Loss
  <2> QED BY <1>4, <2>1, <2>2
<1>6. /\ \A s \in Trades : db'.status[s] = IF s = t THEN "cancelled" ELSE db.status[s]
      /\ \A g \in Groups : db'.offered[g] = db.offered[g]
  BY <1>3, <1>4 DEF Applied
<1>7. OfferedAlike'
  BY <1>6 DEF SweepInv, OfferedAlike
<1>8. Fillable(db)'
  <2>1. PendingIn(db') \subseteq PendingIn(db)
    BY <1>6, FewerPending
  <2>2. AutoCancelled(PendingIn(db), Supplies(db)) = {}
    BY DEF SweepInv, Fillable
  <2>3. AutoCancelled(PendingIn(db'), Supplies(db)) = {}
    BY <1>4, <2>1, <2>2, FewerStayFillable
  <2>4. Supplies(db') = Supplies(db)
    BY <1>5, SuppliesAreSets
  <2> QED BY <2>3, <2>4 DEF Fillable
<1>9. job' = job
  BY <1>1 DEF Commit
<1>10. NoneReleased'
  BY <1>6, <1>9 DEF SweepInv, NoneReleased, IInv, JobInv, FitJob
<1>11. ASSUME NEW q \in Txns PROVE Covers(q)' /\ Closes(q)'
  <2>1. CASE q = p
    <3>1. pc'[p] = "committed"
      BY <1>1 DEF Commit, IInv, JobInv
    <3> QED BY <2>1, <3>1 DEF Covers, Closes
  <2>2. CASE q # p
    <3>1. Leaves(p, q)
      BY <1>1, <2>2, EndLeaves
    <3>2. \A s \in Trades : db'.status[s] = "pending" => db.status[s] = "pending"
      BY <1>6
    <3> QED BY <1>5, <1>8, <2>2, <3>1, <3>2, CommitKeepsOthers DEF IInv
  <2> QED BY <2>1, <2>2
<1> QED BY <1>7, <1>8, <1>10, <1>11 DEF SweepInv

(* A step that commits nothing leaves what p itself relies on to show.     *)
LEMMA QuietStepKeeps ==
  ASSUME IInv, SweepInv, SweepRun, NEW p \in Txns, db' = db, job' = job,
         \A q \in Txns \ {p} : Leaves(p, q), Covers(p)', Closes(p)'
  PROVE  SweepInv'
<1>1. ASSUME NEW q \in Txns, q # p PROVE Covers(q)' /\ Closes(q)'
  <2>1. Leaves(p, q) /\ Covers(q) /\ Closes(q)
    BY <1>1 DEF SweepInv
  <2> QED BY <2>1, QuietKeeps
<1>2. OfferedAlike' /\ Fillable(db)' /\ NoneReleased'
  <2>1. OfferedAlike' /\ NoneReleased'
    BY DEF SweepInv, OfferedAlike, NoneReleased
  <2>2. Fillable(db')
    BY DEF SweepInv
  <2> QED BY <2>1, <2>2
<1> QED BY <1>1, <1>2 DEF SweepInv

LEMMA FailKeeps ==
  ASSUME IInv, SweepInv, SweepRun, NEW p \in Txns, Fail(p)
  PROVE  SweepInv'
<1>1. db' = db /\ job' = job /\ pc'[p] = "failed"
  BY DEF Fail, IInv, JobInv
<1>2. Covers(p)' /\ Closes(p)'
  BY <1>1 DEF Covers, Closes
<1> QED BY <1>1, <1>2, EndLeaves, QuietStepKeeps

(* Every acceptance reads all there is to take.                            *)
LEMMA AcceptReadsKeeps ==
  ASSUME IInv, SweepInv, SweepRun, NEW p \in Txns, AcceptReads(p)
  PROVE  SweepInv'
<1> DEFINE t == job[p].trade
           g == TradeRows[t].group
           d == Seen(p)
<1>1. /\ job[p].kind = "accept" /\ pc[p] = "read" /\ t \in Trades /\ g \in Groups
      /\ writes[p] = NoWrites
  BY AcceptIsSound, TxnAssumption DEF AcceptReads, At, Accepting
<1>2. /\ \A h \in Groups : Supply(db, h) = Supply(d, g)
      /\ ~HasAny(d, g) => Supply(d, g) = {}
  <2>1. Supply(d, g) = Supply(db, g) \ Loss(NoWrites)
    <3>1. NoWrites.lent = {} /\ NoWrites.moved = {} /\ NoWrites.added = {} /\ NoWrites.released = {}
      BY DEF NoWrites
    <3>2. Existing(db) \subseteq Copies
      BY DEF IInv, DbInv
    <3> QED BY <1>1, <3>1, <3>2, SupplyAfterLoss DEF Seen
  <2>2. Loss(NoWrites) = {}
    BY DEF Loss, NoWrites
  <2>3. \A h \in Groups : Supply(db, h) = Supply(db, g)
    BY <1>1 DEF SweepInv, OfferedAlike, Supply
  <2> QED BY <2>1, <2>2, <2>3 DEF HasAny, Supply
<1>3. CASE Fail(p)
  BY <1>3, FailKeeps
<1>4. ASSUME NEW w, NEW s \in {"write", "sweep"}, NEW rows, NEW copies,
             s = "write" => copies = Supply(d, g), s = "sweep" => Supply(d, g) = {},
             Proceed(p, s, w, copies, rows)
      PROVE  SweepInv'
  <2>1. /\ db' = db /\ job' = job /\ pc'[p] = s /\ found'[p] = copies /\ holder' = holder
    BY <1>4 DEF Proceed, IInv, JobInv
  <2>2. Covers(p)'
    BY <1>2, <1>4, <2>1 DEF Covers
  <2>3. Closes(p)'
    BY <1>4, <2>1 DEF Closes
  <2>4. \A q \in Txns \ {p} : Leaves(p, q)
    BY <1>4, ProceedLeaves
  <2> QED BY <2>1, <2>2, <2>3, <2>4, QuietStepKeeps
<1>5. CASE Proceed(p, "write", NoWrites, Supply(d, g), Supply(d, g))
  <2> HIDE DEF d, g
  <2> QED BY <1>4, <1>5
<1>6. CASE /\ ~HasAny(d, g)
           /\ Proceed(p, "sweep", [NoWrites EXCEPT !.status = [s \in {t} |-> "cancelled"]], {}, {})
  <2> HIDE DEF d, g
  <2> QED BY <1>2, <1>4, <1>6
<1> QED BY <1>3, <1>5, <1>6 DEF AcceptReads

LEMMA AcceptPinsKeeps ==
  ASSUME IInv, SweepInv, SweepRun, NEW p \in Txns, AcceptPins(p)
  PROVE  SweepInv'
<1>1. job[p].kind = "accept" /\ pc[p] = "write" /\ \A c \in found[p] : Held(p, c)
  BY AcceptIsSound DEF AcceptPins, At, Accepting, HeldOrWanted
<1>2. CASE Fail(p)
  BY <1>2, FailKeeps
<1>3. ASSUME NEW w, Proceed(p, "sweep", w, {}, {})
      PROVE  SweepInv'
  <2>1. /\ db' = db /\ job' = job /\ pc'[p] = "sweep" /\ holder' = holder
    BY <1>3 DEF Proceed, IInv, JobInv
  <2>2. Covers(p)'
    BY <1>1, <2>1 DEF SweepInv, Covers, Held
  <2>3. Closes(p)'
    BY <2>1 DEF Closes
  <2>4. \A q \in Txns \ {p} : Leaves(p, q)
    BY <1>3, ProceedLeaves
  <2> QED BY <2>1, <2>2, <2>3, <2>4, QuietStepKeeps
<1> QED BY <1>2, <1>3 DEF AcceptPins

LEMMA DisposeDeletesKeeps ==
  ASSUME IInv, SweepInv, SweepRun, NEW p \in Txns, DisposeDeletes(p)
  PROVE  SweepInv'
<1>1. job[p].kind = "dispose"
  BY DEF DisposeDeletes, At
<1>2. CASE Fail(p)
  BY <1>2, FailKeeps
<1>3. ASSUME NEW w, Proceed(p, "sweep", w, {}, {})
      PROVE  SweepInv'
  <2>1. /\ db' = db /\ job' = job /\ pc'[p] = "sweep"
    BY <1>3 DEF Proceed, IInv, JobInv
  <2>2. Covers(p)' /\ Closes(p)'
    BY <1>1, <2>1 DEF Covers, Closes
  <2>3. \A q \in Txns \ {p} : Leaves(p, q)
    BY <1>3, ProceedLeaves
  <2> QED BY <2>1, <2>2, <2>3, QuietStepKeeps
<1> QED BY <1>2, <1>3 DEF DisposeDeletes

(* The sweep is going to lock whatever it found unfillable.                *)
LEMMA SweepReadsKeeps ==
  ASSUME IInv, SweepInv, SweepRun, NEW p \in Txns, SweepReads(p)
  PROVE  SweepInv'
<1> DEFINE doomed == AutoCancelled(PendingIn(Seen(p)), Supplies(Seen(p)))
<1>1. pc[p] = "sweep" /\ Proceed(p, "close", writes[p], {}, doomed)
  BY DEF SweepReads
<1>2. /\ db' = db /\ job' = job /\ pc'[p] = "close" /\ holder' = holder
      /\ writes'[p] = writes[p] /\ wants'[p] = doomed
  BY <1>1 DEF Proceed, IInv, JobInv
<1>3. Covers(p)'
  BY <1>1, <1>2 DEF SweepInv, Covers, Held
<1>4. Closes(p)'
  <2>1. Seen(p)' = Seen(p)
    BY <1>2 DEF Seen
  <2>2. /\ Remaining(p)' \subseteq PendingIn(Seen(p))
        /\ \A r \in Remaining(p)' : r.id \notin doomed
    BY <1>2, <2>1 DEF Remaining, HeldOrWanted
  <2>3. Existing(Seen(p)) \subseteq Copies
    BY <1>1, SeenIsLess
  <2>4. AreRows(PendingIn(Seen(p))) /\ Stocked(PendingIn(Seen(p)), Supplies(Seen(p)))
    BY <2>3, PendingAreRows
  <2>5. AutoCancelled(Remaining(p)', Supplies(Seen(p))) = {}
    BY <2>2, <2>4, SurvivorsAreFillable
  <2> QED BY <2>1, <2>5 DEF Closes
<1>5. \A q \in Txns \ {p} : Leaves(p, q)
  BY <1>1, ProceedLeaves
<1> QED BY <1>2, <1>3, <1>4, <1>5, QuietStepKeeps

LEMMA LockKeeps ==
  ASSUME IInv, SweepInv, SweepRun, NEW p \in Txns, NEW r \in Rows, Lock(p, r)
  PROVE  SweepInv'
<1>1. \A q \in Txns : Leaves(p, q) /\ db' = db
  BY LockLeaves
<1>2. db' = db /\ job' = job
  BY DEF Lock
<1>3. Covers(p) /\ Closes(p)
  BY DEF SweepInv
<1>4. Covers(p)' /\ Closes(p)'
  BY <1>1, <1>2, <1>3, QuietKeeps
<1> QED BY <1>1, <1>2, <1>4, QuietStepKeeps

LEMMA SweepNext ==
  ASSUME IInv, IInv', SweepInv, SweepRun, [Next]_vars
  PROVE  SweepInv'
<1>1. ASSUME NEW p \in Txns, Step(p) \/ DeadlockAbort(p) PROVE SweepInv'
  <2>1. CASE \E r \in Rows : Lock(p, r)
    BY <2>1, LockKeeps
  <2>2. CASE Fail(p)
    BY <2>2, FailKeeps
  <2>3. CASE AcceptReads(p) \/ AcceptPins(p) \/ DisposeDeletes(p) \/ SweepReads(p)
    BY <2>3, AcceptReadsKeeps, AcceptPinsKeeps, DisposeDeletesKeeps, SweepReadsKeeps
  <2>4. CASE SweepCloses(p)
    BY <2>4, SweepClosesKeeps
  <2>5. CASE CancelWrites(p) /\ ~Fail(p)
    BY <2>5, CancelKeeps
  <2> QED BY <1>1, <2>1, <2>2, <2>3, <2>4, <2>5, SweepSteps
<1>2. CASE UNCHANGED vars
  <2>1. /\ db' = db /\ job' = job /\ pc' = pc /\ writes' = writes /\ found' = found
        /\ wants' = wants /\ holder' = holder
    BY <1>2 DEF vars
  <2>2. \A q \in Txns : Leaves(q, q)
    BY <2>1 DEF Leaves, Held, HeldOrWanted
  <2>3. \A q \in Txns : Covers(q)' /\ Closes(q)'
    <3> TAKE q \in Txns
    <3>1. Leaves(q, q) /\ Covers(q) /\ Closes(q)
      BY <2>2 DEF SweepInv
    <3> QED BY <2>1, <3>1, QuietKeeps
  <2>4. OfferedAlike' /\ NoneReleased'
    BY <2>1 DEF SweepInv, OfferedAlike, NoneReleased
  <2>5. Fillable(db')
    BY <2>1 DEF SweepInv
  <2> QED BY <2>3, <2>4, <2>5 DEF SweepInv
<1> QED BY <1>1, <1>2 DEF Next

LEMMA SweepInit ==
  ASSUME StartsFillable, Init
  PROVE  SweepInv
<1>1. PICK s \in Starts : job = s.jobs /\ db = StartDb(s)
  BY DEF Init
<1>2. OfferedAlike /\ Fillable(db)
  BY <1>1 DEF StartsFillable, OfferedAlike, StartDb
<1>3. \A t \in Trades : db.status[t] # "reserved"
  BY <1>1 DEF StartDb
<1>4. NoneReleased
  BY <1>1, <1>3, TxnAssumption DEF NoneReleased, FitJob
<1>5. \A p \in Txns : /\ job[p].kind = "accept" => pc[p] = "read"
                      /\ pc[p] # "close"
  BY DEF Init, FirstStep
<1>6. \A p \in Txns : Covers(p) /\ Closes(p)
  BY <1>5 DEF Covers, Closes
<1> QED BY <1>2, <1>4, <1>6 DEF SweepInv

LEMMA JobsStay == [Next]_vars => job' = job
BY DEF Next, vars, Step, Lock, DeadlockAbort, Fail, Commit, Proceed, AcceptReads,
       AcceptPins, DisposeDeletes, MoveWrites, SweepReads, SweepCloses, LendReads,
       LendPins, ResetReads, ResetChecks, ResetDeletes, CancelWrites, AddWrites,
       OfferReads, OfferWrites

(* From starts where the pending trades can be filled and every group is   *)
(* offered the same copies, acceptances, cancellations and disposals that  *)
(* meet never leave a pending trade that the supply cannot fill, not even  *)
(* between their commits.                                                  *)
THEOREM SweepsKeepFillable ==
  ASSUME StartsFillable
  PROVE  Spec => []SweepsLeaveFillable
<1> DEFINE K == SweepRun => SweepInv
<1>1. Init => K
  BY SweepInit
<1>2. IInv /\ IInv' /\ K /\ [Next]_vars => K'
  <2> SUFFICES ASSUME IInv, IInv', K, [Next]_vars, SweepRun' PROVE SweepInv'
    OBVIOUS
  <2>1. job' = job
    BY JobsStay
  <2>2. SweepRun
    BY <2>1 DEF SweepRun, Ran, DisposalsMeet, NothingReleased
  <2> QED BY <2>2, SweepNext
<1>3. K => SweepsLeaveFillable
  BY DEF SweepsLeaveFillable, SweepRun, SweepInv
<1>4. Spec => []K
  <2> HIDE DEF K
  <2> QED BY AlwaysSound, <1>1, <1>2, PTL DEF Spec
<1> QED
  <2> HIDE DEF K
  <2> QED BY <1>3, <1>4, PTL

-----------------------------------------------------------------------------
(* The offers.  Whoever has checked the supply of a group holds the lock   *)
(* of its offers until it commits, so that the room it found stays.        *)

OfferRun == Ran({"offer", "cancel", "add"})

OffersIn(d, g) == OfGroup(Offers(PendingIn(d)), g)
Claim(d, g)    == Cardinality(Asked(OffersIn(d, g)))
Stock(d, g)    == Cardinality(Supply(d, g))

(* An offer whose supply check has passed has room.                        *)
HasRoom(p) ==
  LET t == job[p].trade
      g == TradeRows[t].group
  IN  job[p].kind = "offer" /\ pc[p] = "write" =>
        Claim(db, g) + TradeRows[t].quantity <= Stock(db, g)

OfferInv ==
  /\ \A g \in Groups : Claim(db, g) <= Stock(db, g)
  /\ \A p \in Txns : HasRoom(p)

LEMMA OffersInAreRows ==
  ASSUME NEW d, NEW g \in Groups
  PROVE  /\ IsFiniteSet(OffersIn(d, g)) /\ \A o \in OffersIn(d, g) : o.quantity \in Nat
         /\ Claim(d, g) \in Nat
         /\ \A o \in OffersIn(d, g) :
              o \in PendingIn(d) /\ o.group = g /\ o.initiator = "giver"
<1>1. IsFiniteSet(PendingIn(d)) /\ \A o \in PendingIn(d) : o.quantity \in Nat
  <2>1. PICK x : Existing(x) \subseteq Copies
    <3>1. Existing([home |-> {}, pooled |-> {}]) \subseteq Copies
      BY DEF Existing
    <3> QED BY <3>1
  <2> QED BY <2>1, PendingAreRows DEF AreRows
<1>2. OffersIn(d, g) \subseteq PendingIn(d)
  BY DEF OffersIn, OfGroup, Offers
<1>3. IsFiniteSet(OffersIn(d, g)) /\ \A o \in OffersIn(d, g) : o.quantity \in Nat
  BY <1>1, <1>2, FS_Subset
<1> QED BY <1>2, <1>3, AskedIsFinite DEF Claim, OffersIn, OfGroup, Offers

LEMMA StockIsNumber ==
  ASSUME NEW d, NEW g, Existing(d) \subseteq Copies
  PROVE  IsFiniteSet(Supply(d, g)) /\ Stock(d, g) \in Nat
<1>1. Supply(d, g) \subseteq Copies
  BY DEF Supply
<1> QED BY <1>1, TxnAssumption, FS_Subset, FS_CardinalityType DEF Stock

(* The offers fit if and only if every group has enough.                   *)
LEMMA FitsIffEnough ==
  ASSUME NEW d, Existing(d) \subseteq Copies,
         \A g, h \in Groups : g # h => d.offered[g] \cap d.offered[h] = {}
  PROVE  Fits(d) <=> \A g \in Groups : Claim(d, g) <= Stock(d, g)
<1> DEFINE offers == Offers(PendingIn(d))
           claims == ClaimCopiesForOffers(offers, Supplies(d))
<1>1. /\ AreRows(offers) /\ Stocked(offers, Supplies(d))
      /\ AreClaims(claims, offers, Supplies(d))
  BY PendingAreRows, OffersAreRows
<1>2. \A g \in Groups : Supplies(d)[g] = Supply(d, g)
  BY DEF Supplies
<1>3. \A o \in offers : o.group \in Groups
  BY PendingRows, TxnAssumption DEF Offers, RowOf
<1>4. Apart(offers, Supplies(d))
  <2>1. \A g \in Groups : Supply(d, g) \subseteq d.offered[g]
    BY DEF Supply
  <2> HIDE DEF offers
  <2> QED BY <1>2, <1>3, <2>1 DEF Apart
<1>5. Fits(d) <=> Unfillable(claims) = {}
  BY DEF Fits
<1>6. \A g \in Groups : OffersIn(d, g) = OfGroup(offers, g)
  BY DEF OffersIn
<1> HIDE DEF claims, offers
<1>7. Unfillable(claims) = {} <=>
        \A o \in offers : Cardinality(Asked(OfGroup(offers, o.group))) <=
                            Cardinality(Supplies(d)[o.group])
  BY <1>1, <1>4, FilledIffEnough
<1>8. \A o \in offers : /\ Cardinality(Asked(OfGroup(offers, o.group))) = Claim(d, o.group)
                        /\ Cardinality(Supplies(d)[o.group]) = Stock(d, o.group)
  BY <1>2, <1>3, <1>6 DEF Claim, Stock
<1>9. ASSUME NEW g \in Groups, \A o \in offers : o.group # g
      PROVE  Claim(d, g) <= Stock(d, g)
  <2>1. OffersIn(d, g) = {}
    BY <1>6, <1>9 DEF OfGroup
  <2>2. Asked({}) = {}
    BY DEF Asked
  <2>3. Claim(d, g) = 0
    BY <2>1, <2>2, FS_EmptySet DEF Claim
  <2> QED BY <2>3, StockIsNumber
<1>10. (\A o \in offers : Claim(d, o.group) <= Stock(d, o.group)) <=>
         \A g \in Groups : Claim(d, g) <= Stock(d, g)
  BY <1>3, <1>9
<1>11. (\A o \in offers : Cardinality(Asked(OfGroup(offers, o.group))) <=
                            Cardinality(Supplies(d)[o.group]))
         <=> \A o \in offers : Claim(d, o.group) <= Stock(d, o.group)
  BY <1>8
<1> QED BY <1>5, <1>7, <1>10, <1>11

(* Fewer pending trades ask for less, more free copies leave more.         *)
LEMMA RoomStays ==
  ASSUME NEW d, NEW e, NEW g \in Groups, Existing(d) \subseteq Copies, Existing(e) \subseteq Copies,
         Supply(d, g) \subseteq Supply(e, g), OffersIn(e, g) \subseteq OffersIn(d, g)
  PROVE  Claim(e, g) <= Claim(d, g) /\ Stock(d, g) <= Stock(e, g)
<1>1. Claim(e, g) <= Claim(d, g)
  BY OffersInAreRows, AskedGrows DEF Claim
<1>2. Stock(d, g) <= Stock(e, g)
  BY StockIsNumber, FS_Subset DEF Stock
<1> QED BY <1>1, <1>2

LEMMA OfferSteps ==
  ASSUME IInv, OfferRun, NEW p \in Txns, Step(p) \/ DeadlockAbort(p)
  PROVE  \/ \E r \in Rows : Lock(p, r)
         \/ Fail(p)
         \/ CancelWrites(p) \/ AddWrites(p) \/ OfferReads(p) \/ OfferWrites(p)
<1>1. job[p].kind \in {"offer", "cancel", "add"}
  BY DEF OfferRun, Ran
<1>2. /\ ~AcceptReads(p) /\ ~AcceptPins(p) /\ ~DisposeDeletes(p)
      /\ ~MoveWrites(p) /\ ~LendReads(p) /\ ~LendPins(p)
      /\ ~ResetReads(p) /\ ~ResetChecks(p) /\ ~ResetDeletes(p)
  BY <1>1 DEF AcceptReads, AcceptPins, DisposeDeletes, MoveWrites, LendReads, LendPins,
              ResetReads, ResetChecks, ResetDeletes, At
<1>3. ~SweepReads(p) /\ ~SweepCloses(p)
  BY <1>1, Sweepers DEF SweepReads, SweepCloses
<1> QED BY <1>2, <1>3 DEF Step, DeadlockAbort

(* What is offered stays offered: nothing is disposed of or moved.         *)
LEMMA OfferedGrows ==
  ASSUME IInv, OfferRun, NEW p \in Txns, Step(p) \/ DeadlockAbort(p)
  PROVE  \A g \in Groups : db.offered[g] \subseteq db'.offered[g]
<1> DEFINE Takes(w) == w.deleted \cup w.moved
<1>1. ASSUME NEW w, Commit(p, w), Takes(w) = {}
      PROVE  \A g \in Groups : db.offered[g] \subseteq db'.offered[g]
  BY <1>1 DEF Commit, Applied
<1>2. CASE (\E r \in Rows : Lock(p, r)) \/ Fail(p) \/ OfferReads(p)
  <2>1. db' = db
    BY <1>2 DEF Lock, Fail, OfferReads, Proceed
  <2> QED BY <2>1
<1>3. CASE CancelWrites(p) /\ ~Fail(p)
  <2> DEFINE w == [NoWrites EXCEPT !.status = [s \in {job[p].trade} |-> "cancelled"],
                                   !.released = {job[p].trade}]
  <2>1. Commit(p, w)
    BY <1>3 DEF CancelWrites
  <2>2. Takes(w) = {}
    BY DEF NoWrites
  <2> QED BY <1>1, <2>1, <2>2
<1>4. CASE AddWrites(p) /\ ~Fail(p)
  <2> DEFINE w == [NoWrites EXCEPT !.added = job[p].copies]
  <2>1. Commit(p, w)
    BY <1>4 DEF AddWrites
  <2>2. Takes(w) = {}
    BY DEF NoWrites
  <2> QED BY <1>1, <2>1, <2>2
<1>5. CASE OfferWrites(p)
  <2>1. Commit(p, writes[p]) /\ writes[p] = StatusOf(job[p].trade, "pending")
    BY <1>5 DEF OfferWrites, At, IInv, Sound, Offering
  <2>2. Takes(writes[p]) = {}
    BY <2>1 DEF StatusOf, NoWrites
  <2> QED BY <1>1, <2>1, <2>2
<1> QED BY <1>2, <1>3, <1>4, <1>5, OfferSteps

(* A step after which every group has the room it had.                     *)
LEMMA RoomKept ==
  ASSUME IInv, IInv', OfferInv, NEW p \in Txns, job' = job,
         \A q \in Txns \ {p} : Leaves(p, q), HasRoom(p)',
         \A g \in Groups : /\ Supply(db, g) \subseteq Supply(db', g)
                           /\ OffersIn(db', g) \subseteq OffersIn(db, g)
  PROVE  OfferInv'
<1>1. Existing(db) \subseteq Copies /\ Existing(db') \subseteq Copies
  BY DEF IInv, DbInv
<1>2. \A g \in Groups : /\ Claim(db', g) <= Claim(db, g) /\ Stock(db, g) <= Stock(db', g)
                        /\ Claim(db', g) \in Nat /\ Claim(db, g) \in Nat
                        /\ Stock(db', g) \in Nat /\ Stock(db, g) \in Nat
  BY <1>1, RoomStays, OffersInAreRows, StockIsNumber
<1>3. \A g \in Groups : Claim(db', g) <= Stock(db', g)
  BY <1>2 DEF OfferInv
<1>4. ASSUME NEW q \in Txns, q # p PROVE HasRoom(q)'
  <2> DEFINE t == job[q].trade
             g == TradeRows[t].group
  <2>1. pc'[q] = pc[q]
    BY <1>4 DEF Leaves
  <2>2. CASE job[q].kind = "offer" /\ pc[q] = "write"
    <3>1. t \in Trades
      BY <2>2 DEF IInv, JobInv, FitJob
    <3>2. g \in Groups /\ TradeRows[t].quantity \in Nat
      BY <3>1, TxnAssumption
    <3>3. Claim(db, g) + TradeRows[t].quantity <= Stock(db, g)
      BY <2>2 DEF OfferInv, HasRoom
    <3>4. Claim(db', g) + TradeRows[t].quantity <= Stock(db', g)
      <4> HIDE DEF g, t
      <4> QED BY <1>2, <3>2, <3>3
    <3> QED BY <3>4 DEF HasRoom
  <2> QED BY <2>1, <2>2 DEF HasRoom
<1> QED BY <1>3, <1>4 DEF OfferInv

LEMMA SamePending ==
  ASSUME NEW d, NEW e, NEW g,
         \A t \in Trades : e.status[t] = "pending" => d.status[t] = "pending"
  PROVE  OffersIn(e, g) \subseteq OffersIn(d, g)
BY FewerPending DEF OffersIn, OfGroup, Offers

LEMMA OfferFailKeeps ==
  ASSUME IInv, IInv', OfferInv, NEW p \in Txns, Fail(p)
  PROVE  OfferInv'
<1>1. db' = db /\ job' = job /\ pc'[p] = "failed"
  BY DEF Fail, IInv, JobInv
<1>2. HasRoom(p)'
  BY <1>1 DEF HasRoom
<1> QED BY <1>1, <1>2, EndLeaves, RoomKept

LEMMA OfferLockKeeps ==
  ASSUME IInv, IInv', OfferInv, NEW p \in Txns, NEW r \in Rows, Lock(p, r)
  PROVE  OfferInv'
<1>1. db' = db /\ job' = job /\ pc' = pc
  BY DEF Lock
<1>2. HasRoom(p)'
  <2>1. HasRoom(p)
    BY DEF OfferInv
  <2> QED BY <1>1, <2>1 DEF HasRoom
<1>3. \A q \in Txns \ {p} : Leaves(p, q)
  BY LockLeaves
<1> QED BY <1>1, <1>2, <1>3, RoomKept

(* A cancelled trade asks for nothing, and added copies are more to take.  *)
LEMMA CancelKeepsRoom ==
  ASSUME IInv, IInv', OfferInv, NEW p \in Txns, CancelWrites(p), ~Fail(p)
  PROVE  OfferInv'
<1> DEFINE t == job[p].trade
           w == [NoWrites EXCEPT !.status = [s \in {t} |-> "cancelled"], !.released = {t}]
<1>1. Commit(p, w)
  BY DEF CancelWrites
<1>2. /\ w.lent = {} /\ w.moved = {} /\ w.added = {} /\ w.deleted = {}
      /\ w.pinned = {} /\ w.status = [s \in {t} |-> "cancelled"]
  BY DEF NoWrites
<1> HIDE DEF w
<1>3. db' = Applied(w, db) /\ job' = job /\ pc'[p] = "committed"
  BY <1>1 DEF Commit, IInv, JobInv
<1>4. /\ \A s \in Trades : /\ db'.status[s] = "pending" => db.status[s] = "pending"
                           /\ db'.pins[s] \subseteq db.pins[s]
      /\ \A g \in Groups : db'.offered[g] = db.offered[g]
      /\ db'.lent = db.lent /\ Existing(db') = Existing(db)
  BY <1>2, <1>3 DEF Applied, Existing
<1>5. Reserved(db') \subseteq Reserved(db)
  BY <1>4 DEF Reserved
<1>6. \A g \in Groups : Supply(db, g) \subseteq Supply(db', g)
  BY <1>4, <1>5 DEF Supply
<1>7. \A g \in Groups : OffersIn(db', g) \subseteq OffersIn(db, g)
  BY <1>4, SamePending
<1>8. HasRoom(p)'
  BY <1>3 DEF HasRoom
<1>9. \A q \in Txns \ {p} : Leaves(p, q)
  BY <1>1, EndLeaves
<1> QED BY <1>3, <1>4, <1>6, <1>7, <1>8, <1>9, RoomKept

LEMMA AddKeepsRoom ==
  ASSUME IInv, IInv', OfferInv, NEW p \in Txns, AddWrites(p), ~Fail(p)
  PROVE  OfferInv'
<1> DEFINE w == [NoWrites EXCEPT !.added = job[p].copies]
<1>1. Commit(p, w)
  BY DEF AddWrites
<1>2. /\ w.lent = {} /\ w.moved = {} /\ w.deleted = {} /\ w.released = {}
      /\ w.pinned = {} /\ DOMAIN w.status = {}
  BY DEF NoWrites
<1> HIDE DEF w
<1>3. db' = Applied(w, db) /\ job' = job /\ pc'[p] = "committed"
  BY <1>1 DEF Commit, IInv, JobInv
<1>4. /\ \A s \in Trades : /\ db'.status[s] = db.status[s]
                           /\ db'.pins[s] = db.pins[s]
      /\ \A g \in Groups : db.offered[g] \subseteq db'.offered[g]
      /\ db'.lent = db.lent /\ Existing(db) \subseteq Existing(db')
  BY <1>2, <1>3 DEF Applied, Existing
<1>5. Reserved(db') = Reserved(db)
  BY <1>4 DEF Reserved
<1>6. \A g \in Groups : Supply(db, g) \subseteq Supply(db', g)
  BY <1>4, <1>5 DEF Supply
<1>7. \A g \in Groups : OffersIn(db', g) \subseteq OffersIn(db, g)
  BY <1>4, SamePending
<1>8. HasRoom(p)'
  BY <1>3 DEF HasRoom
<1>9. \A q \in Txns \ {p} : Leaves(p, q)
  BY <1>1, EndLeaves
<1> QED BY <1>3, <1>4, <1>6, <1>7, <1>8, <1>9, RoomKept

(* The supply check finds the room it asks for.                            *)
LEMMA OfferReadsKeeps ==
  ASSUME IInv, IInv', OfferInv, OffersApart, NEW p \in Txns, OfferReads(p), ~Fail(p)
  PROVE  OfferInv'
<1> DEFINE t == job[p].trade
           g == TradeRows[t].group
           w == [NoWrites EXCEPT !.status = [s \in {t} |-> "pending"]]
           n == AvailableCount(PendingIn(db), Supplies(db), g)
<1>1. /\ job[p].kind = "offer" /\ t \in Trades /\ g \in Groups
      /\ TradeRows[t].quantity <= n /\ Proceed(p, "write", w, {}, {})
  BY TxnAssumption DEF OfferReads, At, IInv, JobInv, FitJob
<1>2. db' = db /\ job' = job
  BY <1>1 DEF Proceed
<1>3. Existing(db) \subseteq Copies
  BY DEF IInv, DbInv
<1>4. Fits(db)
  BY <1>3, FitsIffEnough DEF OfferInv, OffersApart
<1>5. n = Stock(db, g) - Claim(db, g)
  <2>1. AreRows(PendingIn(db)) /\ Stocked(PendingIn(db), Supplies(db))
    BY <1>3, PendingAreRows
  <2>2. \A h \in Groups : /\ Supplies(db)[h] = Supply(db, h) /\ IsFiniteSet(Supply(db, h))
                          /\ Supply(db, h) \subseteq db.offered[h]
    BY <1>3, StockIsNumber DEF Supplies, Supply
  <2>3. \A o \in Offers(PendingIn(db)) : o.group \in Groups
    BY PendingRows, TxnAssumption DEF Offers, RowOf
  <2>4. \A o \in Offers(PendingIn(db)) : o.group # g =>
          Supplies(db)[o.group] \cap Supplies(db)[g] = {}
    BY <1>1, <2>2, <2>3 DEF OffersApart
  <2>5. Unfillable(ClaimCopiesForOffers(Offers(PendingIn(db)), Supplies(db))) = {}
    BY <1>4 DEF Fits
  <2>6. IsFiniteSet(Supplies(db)[g])
    BY <1>1, <2>2
  <2> HIDE DEF g, n
  <2>7. n = Cardinality(Supplies(db)[g])
              - Cardinality(Asked(OfGroup(Offers(PendingIn(db)), g)))
    BY <2>1, <2>4, <2>5, <2>6, AvailableIsRest DEF n
  <2> QED BY <1>1, <2>2, <2>7 DEF Stock, Claim, OffersIn
<1>6. Claim(db, g) + TradeRows[t].quantity <= Stock(db, g)
  <2>1. /\ Claim(db, g) \in Nat /\ Stock(db, g) \in Nat /\ TradeRows[t].quantity \in Nat
    BY <1>1, <1>3, OffersInAreRows, StockIsNumber, TxnAssumption
  <2> HIDE DEF g, n, t
  <2> QED BY <1>1, <1>5, <2>1
<1>7. HasRoom(p)'
  BY <1>2, <1>6 DEF HasRoom
<1>8. \A q \in Txns \ {p} : Leaves(p, q)
  BY <1>1, ProceedLeaves
<1> QED BY <1>2, <1>7, <1>8, RoomKept

(* Only the group whose lock it holds gets the offer.                      *)
LEMMA OfferWritesKeeps ==
  ASSUME IInv, IInv', OfferInv, NEW p \in Txns, OfferWrites(p)
  PROVE  OfferInv'
<1> DEFINE t == job[p].trade
           g == TradeRows[t].group
           w == writes[p]
<1>1. /\ job[p].kind = "offer" /\ pc[p] = "write" /\ t \in Trades /\ Commit(p, w)
      /\ w = StatusOf(t, "pending") /\ db.status[t] = "none" /\ Held(p, g)
  BY DEF OfferWrites, At, IInv, Sound, Offering, JobInv, FitJob
<1>2. /\ w.lent = {} /\ w.moved = {} /\ w.added = {} /\ w.deleted = {} /\ w.released = {}
      /\ w.pinned = {} /\ w.status = [s \in {t} |-> "pending"]
  BY <1>1 DEF StatusOf, NoWrites
<1>g. g \in Groups /\ TradeRows[t].quantity \in Nat
  BY <1>1, TxnAssumption
<1> HIDE DEF w
<1>3. db' = Applied(w, db) /\ job' = job /\ pc'[p] = "committed"
  BY <1>1 DEF Commit, IInv, JobInv
<1>4. /\ \A s \in Trades : /\ db'.status[s] = IF s = t THEN "pending" ELSE db.status[s]
                           /\ db'.pins[s] = db.pins[s]
      /\ \A h \in Groups : db'.offered[h] = db.offered[h]
      /\ db'.lent = db.lent /\ Existing(db') = Existing(db)
  BY <1>2, <1>3 DEF Applied, Existing
<1>5. \A h \in Groups : Supply(db', h) = Supply(db, h)
  <2>1. Reserved(db') = Reserved(db)
    BY <1>4 DEF Reserved
  <2> QED BY <1>4, <2>1 DEF Supply
<1>6. PendingIn(db') \subseteq PendingIn(db) \cup {RowOf(t)}
  <2> SUFFICES ASSUME NEW r \in PendingIn(db'), r # RowOf(t) PROVE r \in PendingIn(db)
    OBVIOUS
  <2>1. r.id \in Trades /\ r = RowOf(r.id) /\ (db').status[r.id] = "pending"
    BY PendingRows
  <2>2. db.status[r.id] = "pending"
    BY <1>4, <2>1
  <2> QED BY <2>1, <2>2, PendingRows
<1>7. /\ RowOf(t).group = g /\ RowOf(t).quantity = TradeRows[t].quantity
      /\ RowOf(t) \notin PendingIn(db)
  <2>1. \A r \in PendingIn(db) : db.status[r.id] = "pending"
    BY PendingRows
  <2>2. RowOf(t).id = t
    BY DEF RowOf
  <2> QED BY <1>1, <2>1, <2>2 DEF RowOf
<1>8. \A h \in Groups : OffersIn(db', h) \subseteq
        IF h = g THEN OffersIn(db, h) \cup {RowOf(t)} ELSE OffersIn(db, h)
  BY <1>6, <1>7 DEF OffersIn, OfGroup, Offers
<1>9. \A h \in Groups : Stock(db', h) = Stock(db, h)
  BY <1>5 DEF Stock
<1>e. Existing(db) \subseteq Copies /\ Existing(db') \subseteq Copies
  BY DEF IInv, DbInv
<1>10. ASSUME NEW h \in Groups, h # g PROVE Claim(db', h) <= Claim(db, h)
  <2>1. Supply(db, h) \subseteq Supply(db', h) /\ OffersIn(db', h) \subseteq OffersIn(db, h)
    BY <1>5, <1>8, <1>10
  <2> QED BY <1>e, <2>1, RoomStays
<1>11. Claim(db', g) <= Claim(db, g) + TradeRows[t].quantity
  <2> DEFINE T == OffersIn(db, g)
             o == RowOf(t)
  <2>1. IsFiniteSet(T) /\ \A x \in T : x.quantity \in Nat
    BY <1>g, OffersInAreRows
  <2>2. o \notin T /\ o.quantity \in Nat
    BY <1>g, <1>7, OffersInAreRows
  <2>3. IsFiniteSet(T \cup {o}) /\ \A x \in T \cup {o} : x.quantity \in Nat
    BY <2>1, <2>2, FS_AddElement
  <2>4. OffersIn(db', g) \subseteq T \cup {o}
    BY <1>g, <1>8
  <2> HIDE DEF T, o
  <2>5. Cardinality(Asked(OffersIn(db', g))) <= Cardinality(Asked(T \cup {o}))
    BY <2>3, <2>4, AskedGrows
  <2>6. Cardinality(Asked(T \cup {o})) = Cardinality(Asked(T)) + o.quantity
    BY <2>1, <2>2, AskedGrows
  <2> QED BY <1>7, <2>5, <2>6 DEF Claim, T, o
<1>n. \A h \in Groups : /\ Claim(db', h) \in Nat /\ Claim(db, h) \in Nat
                        /\ Stock(db', h) \in Nat /\ Stock(db, h) \in Nat
  BY <1>e, OffersInAreRows, StockIsNumber
<1>12. Claim(db, g) + TradeRows[t].quantity <= Stock(db, g)
  BY <1>1 DEF OfferInv, HasRoom
<1>13. \A h \in Groups : Claim(db', h) <= Stock(db', h)
  <2> TAKE h \in Groups
  <2>1. Claim(db, h) <= Stock(db, h)
    BY DEF OfferInv
  <2> HIDE DEF g, t
  <2>2. CASE h = g
    BY <1>g, <1>9, <1>11, <1>12, <1>n, <2>2
  <2>3. CASE h # g
    <3>1. Claim(db', h) <= Claim(db, h)
      BY <1>10, <2>3
    <3> QED BY <1>9, <1>n, <2>1, <3>1
  <2> QED BY <2>2, <2>3
<1>14. ASSUME NEW q \in Txns PROVE HasRoom(q)'
  <2> DEFINE s == job[q].trade
             h == TradeRows[s].group
  <2>1. CASE q = p
    BY <1>3, <2>1 DEF HasRoom
  <2>2. CASE q # p /\ job[q].kind = "offer" /\ pc[q] = "write"
    <3>1. s \in Trades
      BY <2>2 DEF IInv, JobInv, FitJob
    <3>2. h \in Groups /\ TradeRows[s].quantity \in Nat
      BY <3>1, TxnAssumption
    <3>3. Held(q, h)
      BY <2>2 DEF IInv, Sound, Offering
    <3>4. h # g
      BY <1>1, <2>2, <3>3, OneHolder
    <3>5. Claim(db, h) + TradeRows[s].quantity <= Stock(db, h)
      BY <2>2 DEF OfferInv, HasRoom
    <3>6. Claim(db', h) + TradeRows[s].quantity <= Stock(db', h)
      <4>1. Claim(db', h) <= Claim(db, h)
        BY <1>10, <3>2, <3>4
      <4> HIDE DEF h, s
      <4> QED BY <1>9, <1>n, <3>2, <3>5, <4>1
    <3> QED BY <1>3, <3>6 DEF HasRoom
  <2>3. CASE q # p /\ ~(job[q].kind = "offer" /\ pc[q] = "write")
    <3>1. pc'[q] = pc[q] /\ job' = job
      BY <1>1, <2>3, EndLeaves DEF Leaves
    <3> QED BY <2>3, <3>1 DEF HasRoom
  <2> QED BY <2>1, <2>2, <2>3
<1> QED BY <1>4, <1>13, <1>14 DEF OfferInv

LEMMA OfferNext ==
  ASSUME IInv, IInv', OfferRun, OffersApart => OfferInv, OffersApart', [Next]_vars
  PROVE  OfferInv'
<1>1. ASSUME NEW p \in Txns, Step(p) \/ DeadlockAbort(p) PROVE OfferInv'
  <2>1. OffersApart /\ OfferInv
    <3>1. \A g \in Groups : db.offered[g] \subseteq db'.offered[g]
      BY <1>1, OfferedGrows
    <3> QED BY <3>1 DEF OffersApart
  <2>2. CASE \E r \in Rows : Lock(p, r)
    BY <2>1, <2>2, OfferLockKeeps
  <2>3. CASE Fail(p)
    BY <2>1, <2>3, OfferFailKeeps
  <2>4. CASE OfferReads(p) /\ ~Fail(p)
    BY <2>1, <2>4, OfferReadsKeeps
  <2>5. CASE CancelWrites(p) /\ ~Fail(p)
    BY <2>1, <2>5, CancelKeepsRoom
  <2>6. CASE AddWrites(p) /\ ~Fail(p)
    BY <2>1, <2>6, AddKeepsRoom
  <2>7. CASE OfferWrites(p)
    BY <2>1, <2>7, OfferWritesKeeps
  <2> QED BY <1>1, <2>2, <2>3, <2>4, <2>5, <2>6, <2>7, OfferSteps
<1>2. CASE UNCHANGED vars
  <2>1. db' = db /\ job' = job /\ pc' = pc
    BY <1>2 DEF vars
  <2>2. OfferInv
    BY <2>1 DEF OffersApart
  <2> QED BY <2>1, <2>2 DEF OfferInv, HasRoom
<1> QED BY <1>1, <1>2 DEF Next

LEMMA OfferInit ==
  ASSUME StartsFit, Init, OffersApart
  PROVE  OfferInv
<1>1. PICK s \in Starts : job = s.jobs /\ db = StartDb(s)
  BY DEF Init
<1>2. Fits(db)
  BY <1>1 DEF StartsFit
<1>3. Existing(db) \subseteq Copies
  BY <1>1, TxnAssumption DEF StartDb, Existing
<1>4. \A g \in Groups : Claim(db, g) <= Stock(db, g)
  BY <1>2, <1>3, FitsIffEnough DEF OffersApart
<1>5. \A p \in Txns : job[p].kind = "offer" => pc[p] = "read"
  BY DEF Init, FirstStep
<1> QED BY <1>4, <1>5 DEF OfferInv, HasRoom

(* From starts where the pending offers fit, the offers createTrade accepts *)
(* can always be honoured together while no copy is offered to two groups: *)
(* the lock of the group keeps the room a supply check has found.          *)
THEOREM OffersDoFit ==
  ASSUME StartsFit
  PROVE  Spec => []OffersFit
<1> DEFINE K == OfferRun /\ OffersApart => OfferInv
<1>1. Init => K
  BY OfferInit
<1>2. IInv /\ IInv' /\ K /\ [Next]_vars => K'
  <2> SUFFICES ASSUME IInv, IInv', K, [Next]_vars, OfferRun', OffersApart' PROVE OfferInv'
    OBVIOUS
  <2>1. job' = job
    BY JobsStay
  <2>2. OfferRun
    BY <2>1 DEF OfferRun, Ran
  <2> QED BY <2>2, OfferNext
<1>3. IInv /\ K => OffersFit
  <2> SUFFICES ASSUME IInv, K, OfferRun, OffersApart PROVE Fits(db)
    BY DEF OffersFit, OfferRun
  <2>1. Existing(db) \subseteq Copies
    BY DEF IInv, DbInv
  <2> QED BY <2>1, FitsIffEnough DEF OfferInv, OffersApart
<1>4. Spec => []K
  <2> HIDE DEF K
  <2> QED BY AlwaysSound, <1>1, <1>2, PTL DEF Spec
<1> QED
  <2> HIDE DEF K
  <2> QED BY AlwaysSound, <1>3, <1>4, PTL
=============================================================================
