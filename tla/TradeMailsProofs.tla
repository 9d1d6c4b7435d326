-------------------------- MODULE TradeMailsProofs --------------------------
(***************************************************************************)
(* Proofs about the trade mails, for any number of trades and of aborts.   *)
(***************************************************************************)
EXTENDS TradeMails, TLAPS

USE MailAssumption

LEMMA RowsAreTyped ==
  ASSUME MailsTypeOK
  PROVE  /\ trades \in Seq(TradeRecord) /\ Len(trades) \in Nat /\ DOMAIN trades = TradeRows
         /\ TradeRows \subseteq 1..MaxLetters
         /\ \A t \in TradeRows : trades[t] \in TradeRecord
<1>1. trades \in Seq(TradeRecord) /\ Len(trades) <= MaxLetters
  BY DEF MailsTypeOK
<1>2. Len(trades) \in Nat /\ DOMAIN trades = TradeRows
  BY <1>1 DEF TradeRows
<1>3. \A t \in TradeRows : trades[t] \in TradeRecord
  BY <1>1 DEF TradeRows
<1>4. TradeRows \subseteq 1..MaxLetters
  BY <1>1, <1>2 DEF TradeRows
<1> QED
  BY <1>1, <1>2, <1>3, <1>4

(* The trades change by a row, or get one more.                            *)
LEMMA RowChanged ==
  ASSUME MailsTypeOK, NEW t \in TradeRows, NEW r \in TradeRecord,
         trades' = [trades EXCEPT ![t] = r]
  PROVE  /\ trades' \in Seq(TradeRecord) /\ TradeRows' = TradeRows /\ Len(trades') = Len(trades)
         /\ trades'[t] = r /\ \A s \in TradeRows \ {t} : trades'[s] = trades[s]
<1>1. trades \in Seq(TradeRecord)
  BY DEF MailsTypeOK
<1>2. trades' \in Seq(TradeRecord) /\ Len(trades') = Len(trades)
  BY <1>1 DEF TradeRows
<1> QED
  BY <1>1, <1>2 DEF TradeRows

LEMMA RowAppended ==
  ASSUME MailsTypeOK, NEW s \in Seq(TradeRecord), Len(s) = Len(trades), NEW r \in TradeRecord,
         trades' = Append(s, r)
  PROVE  /\ trades' \in Seq(TradeRecord) /\ Len(trades') = Len(trades) + 1
         /\ TradeRows' = TradeRows \cup {Len(trades) + 1}
         /\ trades'[Len(trades) + 1] = r /\ \A t \in TradeRows : trades'[t] = s[t]
<1>1. Len(trades) \in Nat
  BY RowsAreTyped
<1>2. trades' \in Seq(TradeRecord) /\ Len(trades') = Len(trades) + 1
  OBVIOUS
<1>3. TradeRows' = TradeRows \cup {Len(trades) + 1}
  BY <1>1, <1>2 DEF TradeRows
<1> QED
  BY <1>1, <1>2, <1>3 DEF TradeRows

-----------------------------------------------------------------------------
(* The inductive invariant. *)

(* What a trade row says of a member is a fact, split-off rows aside; only *)
(* a row of its own has copies left to split.                              *)
TrueRow(t) ==
  /\ trades[t].quantity > 1 => trades[t].root = t
  /\ trades[t].root = t =>
       /\ Fact(t, "request", trades[t].initiator) \in facts
       /\ /\ trades[t].status \in {"reserved", "declined", "cancelled"}
          /\ trades[t].actor # Nobody
          => Fact(t, trades[t].status, trades[t].actor) \in facts

RowInv ==
  /\ \A t \in TradeRows : TrueRow(t)
  /\ \A t \in 1..MaxLetters \ TradeRows : instant[t] = "none"

(* A mail that has left has its marker, unless the claim is still to be    *)
(* committed or was rolled back.  A mail about to leave has its marker,    *)
(* and has not left before.                                                *)
Spent(l) ==
  \/ Marker(l.event) \in trades[l.row].marks
  \/ Marker(l.event) = "request" /\ (l.row \in undone \/ instant[l.row] = "sent")

OnceInv ==
  /\ EachMailOnce
  /\ \A l \in told : Spent(l)
  /\ \A l \in flush.letter : Marker(l.event) \in trades[l.row].marks
  /\ flush.pc # "send" => flush.letter = {}
  /\ Claims(flush.letter) \cap Claims(told) \subseteq undone \X {"request"}
  /\ \A t \in TradeRows : RowLocked(t) => "request" \notin trades[t].marks

Truthful(l) == trades[l.row].root = l.row => l \in facts
TruthInv ==
  /\ MailsAreTrue
  /\ \A l \in flush.listed \cup flush.letter : Truthful(l)

Explained(t, m) ==
  \E r \in {t, trades[t].root} :
    \/ <<r, m>> \in dropped
    \/ \E l \in told \cup flush.letter : l.row = r /\ Marker(l.event) = m
MarksInv ==
  /\ MarksAreExplained
  /\ \A t \in TradeRows : instant[t] = "sent" => Explained(t, "request")

LEMMA MarksExplained ==
  LET A == \A t \in TradeRows : \A m \in trades[t].marks : Explained(t, m)
  IN  (MarksAreExplained <=> A) /\ (MarksAreExplained <=> A)'
  BY DEF MarksAreExplained, Explained

IInv == MailsTypeOK /\ RowInv /\ OnceInv /\ TruthInv /\ MarksInv

LEMMA FactFields ==
  ASSUME MailsTypeOK, NEW l \in Facts
  PROVE  l.row \in TradeRows /\ l.event \in Events /\ l.actor \in Sides
  BY DEF Facts

LEMMA AtStart == MailsInit => IInv
<1> SUFFICES ASSUME MailsInit PROVE IInv
  OBVIOUS
<1>1. /\ NewTrade(1, "receiver") \in TradeRecord /\ Len(trades) = 1 /\ TradeRows = {1}
      /\ trades[1] = NewTrade(1, "receiver")
  BY DEF MailsInit, NewTrade, TradeRecord, Sides, TradeRows
<1>2. MailsTypeOK
  <2>1. trades \in Seq(TradeRecord) /\ Len(trades) <= MaxLetters
    BY <1>1 DEF MailsInit
  <2>2. instant \in [1..MaxLetters -> {"none", "start", "claimed", "sent"}]
    BY DEF MailsInit
  <2>3. facts \subseteq Facts
    BY <1>1 DEF MailsInit, Fact, Facts, Events, Sides
  <2> QED
    BY <2>1, <2>2, <2>3 DEF MailsInit, MailsTypeOK, Resting, Queues
<1>3. RowInv
  BY <1>1 DEF MailsInit, RowInv, TrueRow, NewTrade
<1>4. OnceInv
  BY <1>1 DEF MailsInit, OnceInv, EachMailOnce, Claims, NewTrade, Resting
<1>5. TruthInv /\ MarksInv
  BY <1>1 DEF MailsInit, TruthInv, MailsAreTrue, MarksInv, MarksAreExplained, NewTrade, Resting
<1> QED
  BY <1>2, <1>3, <1>4, <1>5 DEF IInv

-----------------------------------------------------------------------------
(* The trades. *)

(* A step of the trades: rows keep their marks, new ones have marks of the *)
(* row they were split off only, and no mail is under way for them.        *)
Growth ==
  /\ trades' \in Seq(TradeRecord) /\ Len(trades') <= MaxLetters
  /\ TradeRows \subseteq TradeRows'
  /\ \A t \in TradeRows : /\ trades'[t].root = trades[t].root
                          /\ trades'[t].marks = trades[t].marks
  /\ \A t \in TradeRows' \ TradeRows : \A m \in trades'[t].marks :
       /\ trades'[t].root \in TradeRows
       /\ trades[trades'[t].root].root = trades'[t].root
       /\ m \in trades[trades'[t].root].marks
  /\ instant' \in [1..MaxLetters -> {"none", "start", "claimed", "sent"}]
  /\ \A t \in TradeRows : instant'[t] = instant[t]
  /\ \A t \in TradeRows' \ TradeRows : instant'[t] \in {"none", "start"}
  /\ facts \subseteq facts' /\ facts' \subseteq Facts'
  /\ RowInv'
  /\ UNCHANGED <<topic, flush, told, again, undone, dropped, aborts>>

LEMMA GrowthKeepsIInv ==
  ASSUME IInv, Growth
  PROVE  IInv'
<1>1. MailsTypeOK /\ Facts \subseteq Facts'
  BY DEF IInv, Growth, Facts
<1>2. MailsTypeOK'
  BY <1>1 DEF MailsTypeOK, Growth
<1>3. told \subseteq Facts /\ flush.listed \subseteq Facts /\ flush.letter \subseteq Facts
  BY <1>1 DEF MailsTypeOK
<1>4. \A l \in told \cup flush.listed \cup flush.letter : l.row \in TradeRows
  BY <1>1, <1>3, FactFields
<1>5. OnceInv'
  BY <1>4 DEF IInv, OnceInv, EachMailOnce, Spent, Claims, Growth, RowLocked
<1>6. TruthInv'
  BY <1>4 DEF IInv, TruthInv, MailsAreTrue, Truthful, Growth
<1>7. MarksInv'
  <2>1. \A t \in TradeRows : \A m : Explained(t, m) => Explained(t, m)'
    BY DEF Explained, Growth
  <2>2. ASSUME NEW t \in TradeRows', NEW m \in trades'[t].marks
        PROVE  Explained(t, m)'
    <3>1. CASE t \in TradeRows
      <4>1. Explained(t, m)
        BY <2>2, <3>1 DEF IInv, MarksInv, MarksAreExplained, Explained, Growth
      <4> QED
        BY <2>1, <3>1, <4>1
    <3>2. CASE t \notin TradeRows
      <4> DEFINE r == trades'[t].root
      <4>1. r \in TradeRows /\ trades[r].root = r /\ m \in trades[r].marks
        BY <2>2, <3>2 DEF Growth
      <4>2. Explained(r, m)
        BY <4>1 DEF IInv, MarksInv, MarksAreExplained, Explained
      <4> QED
        BY <4>1, <4>2 DEF Explained, Growth
    <3> QED
      BY <3>1, <3>2
  <2>3. MarksAreExplained'
    BY <2>2 DEF MarksAreExplained, Explained
  <2>4. \A t \in TradeRows' : instant'[t] = "sent" => Explained(t, "request")'
    BY <2>1 DEF IInv, MarksInv, Growth
  <2> QED
    BY <2>3, <2>4 DEF MarksInv
<1> QED
  BY <1>2, <1>5, <1>6, <1>7 DEF IInv, Growth

LEMMA CreateGrows ==
  ASSUME IInv, NEW u \in Sides, CreateTradeRow(u)
  PROVE  Growth
<1>0. PICK t : t = Len(trades) + 1
  OBVIOUS
<1> DEFINE r == NewTrade(t, u)
<1>1. MailsTypeOK /\ Len(trades) \in Nat /\ TradeRows \subseteq 1..MaxLetters /\ t <= MaxLetters
      /\ trades \in Seq(TradeRecord)
  BY <1>0, RowsAreTyped DEF IInv, CreateTradeRow
<1>2. r \in TradeRecord /\ r.marks = {}
  BY <1>0, <1>1 DEF NewTrade, TradeRecord
<1>3. /\ trades' \in Seq(TradeRecord) /\ Len(trades') = t /\ TradeRows' = TradeRows \cup {t}
      /\ trades'[t] = r /\ \A s \in TradeRows : trades'[s] = trades[s]
  BY <1>0, <1>1, <1>2, RowAppended DEF CreateTradeRow
<1>4. t \notin TradeRows
  BY <1>0, <1>1 DEF TradeRows
<1>5. /\ instant' \in [1..MaxLetters -> {"none", "start", "claimed", "sent"}]
      /\ instant'[t] \in {"none", "start"}
      /\ \A s \in 1..MaxLetters \ {t} : instant'[s] = instant[s]
  BY <1>0, <1>1 DEF CreateTradeRow, MailsTypeOK
<1>6. facts' = facts \cup {Fact(t, "request", u)} /\ facts' \subseteq Facts'
  BY <1>0, <1>1, <1>3 DEF CreateTradeRow, MailsTypeOK, Facts, Fact, Events
<1>7. RowInv'
  <2>1. \A s \in TradeRows : TrueRow(s)'
    BY <1>3, <1>6 DEF IInv, RowInv, TrueRow
  <2>2. TrueRow(t)'
    <3>1. r.root = t /\ r.initiator = u /\ r.status = "pending"
      BY DEF NewTrade
    <3> HIDE DEF r
    <3> QED
      BY <1>3, <1>6, <3>1 DEF TrueRow
  <2>3. \A s \in 1..MaxLetters \ TradeRows' : instant'[s] = "none"
    BY <1>3, <1>5 DEF IInv, RowInv
  <2> QED
    BY <1>3, <2>1, <2>2, <2>3 DEF RowInv
<1>8. UNCHANGED <<topic, flush, told, again, undone, dropped, aborts>>
  BY DEF CreateTradeRow
<1> HIDE DEF r
<1> QED
  BY <1>1, <1>2, <1>3, <1>4, <1>5, <1>6, <1>7, <1>8 DEF Growth

(* A row that changes its status.                                          *)
LEMMA ChangeGrows ==
  ASSUME IInv, NEW t \in TradeRows, NEW r \in TradeRecord, trades' = [trades EXCEPT ![t] = r],
         r.root = trades[t].root, r.marks = trades[t].marks, r.initiator = trades[t].initiator,
         r.quantity <= trades[t].quantity,
         facts \subseteq facts', facts' \subseteq Facts,
         (/\ r.root = t /\ r.status \in {"reserved", "declined", "cancelled"}
          /\ r.actor # Nobody) => Fact(t, r.status, r.actor) \in facts',
         UNCHANGED <<topic, instant, flush, told, again, undone, dropped, aborts>>
  PROVE  Growth
<1>1. MailsTypeOK /\ Len(trades) \in Nat /\ TradeRows \subseteq 1..MaxLetters
      /\ Len(trades) <= MaxLetters /\ trades[t] \in TradeRecord
  BY RowsAreTyped DEF IInv, MailsTypeOK
<1>2. /\ trades' \in Seq(TradeRecord) /\ TradeRows' = TradeRows /\ Len(trades') = Len(trades)
      /\ trades'[t] = r /\ \A s \in TradeRows \ {t} : trades'[s] = trades[s]
  BY <1>1, RowChanged
<1>3. RowInv'
  <2>1. \A s \in TradeRows \ {t} : TrueRow(s)'
    BY <1>2 DEF IInv, RowInv, TrueRow
  <2>2. TrueRow(t)'
    <3>1. r.quantity \in Nat /\ trades[t].quantity \in Nat
      BY <1>1 DEF TradeRecord
    <3>2. r.quantity > 1 => r.root = t
      BY <3>1 DEF IInv, RowInv, TrueRow
    <3>3. r.root = t => Fact(t, "request", r.initiator) \in facts'
      BY DEF IInv, RowInv, TrueRow
    <3> QED
      BY <1>2, <3>2, <3>3 DEF TrueRow
  <2> QED
    BY <1>2, <2>1, <2>2 DEF RowInv, IInv
<1>4. Facts' = Facts
  BY <1>2 DEF Facts
<1> QED
  BY <1>1, <1>2, <1>3, <1>4 DEF Growth, MailsTypeOK

LEMMA AnswerGrows ==
  ASSUME IInv, NEW t \in TradeRows, NEW u \in Sides,
         NEW event \in {"reserved", "declined", "cancelled"}, AnswerTrade(t, u, event)
  PROVE  Growth
<1> DEFINE r == [trades[t] EXCEPT !.status = event, !.actor = u]
<1>1. MailsTypeOK /\ trades \in Seq(TradeRecord) /\ trades[t] \in TradeRecord
  BY RowsAreTyped DEF IInv
<1>2. /\ r \in TradeRecord /\ r.status = event /\ r.actor = u /\ r.root = trades[t].root
      /\ r.marks = trades[t].marks /\ r.initiator = trades[t].initiator
      /\ r.quantity = trades[t].quantity
  BY <1>1 DEF TradeRecord
<1>3. trades' = [trades EXCEPT ![t] = r]
  BY <1>1 DEF AnswerTrade, ActorAfter
<1>4. facts' = facts \cup {Fact(t, event, u)} /\ facts' \subseteq Facts
  BY <1>1 DEF AnswerTrade, MailsTypeOK, Facts, Fact, Events
<1>5. r.quantity <= trades[t].quantity
  BY <1>1, <1>2 DEF TradeRecord
<1> HIDE DEF r
<1> QED
  BY <1>2, <1>3, <1>4, <1>5, ChangeGrows DEF AnswerTrade

LEMMA CloseGrows ==
  ASSUME IInv, NEW t \in TradeRows, CloseBySystem(t)
  PROVE  Growth
<1> DEFINE r == [trades[t] EXCEPT !.status = "cancelled", !.actor = Nobody]
<1>1. MailsTypeOK /\ trades \in Seq(TradeRecord) /\ trades[t] \in TradeRecord
  BY RowsAreTyped DEF IInv
<1>2. /\ r \in TradeRecord /\ r.actor = Nobody /\ r.root = trades[t].root
      /\ r.marks = trades[t].marks /\ r.initiator = trades[t].initiator
      /\ r.quantity = trades[t].quantity
  BY <1>1 DEF TradeRecord
<1>3. trades' = [trades EXCEPT ![t] = r]
  BY <1>1 DEF CloseBySystem
<1>4. facts' = facts /\ facts \subseteq Facts
  BY <1>1 DEF CloseBySystem, MailsTypeOK, mailHistory
<1>5. r.quantity <= trades[t].quantity
  BY <1>1, <1>2 DEF TradeRecord
<1> HIDE DEF r
<1> QED
  BY <1>2, <1>3, <1>4, <1>5, ChangeGrows DEF CloseBySystem, mailHistory

LEMMA SettleGrows ==
  ASSUME IInv, NEW t \in TradeRows, NEW u \in Sides, SettleRow(t, u)
  PROVE  Growth
<1> DEFINE last == Opposite(u) \in trades[t].settled
           r == [trades[t] EXCEPT !.settled = @ \cup {u},
                                  !.status = IF last THEN "completed" ELSE @,
                                  !.actor = IF last THEN u ELSE @]
<1>1. MailsTypeOK /\ trades \in Seq(TradeRecord) /\ trades[t] \in TradeRecord
  BY RowsAreTyped DEF IInv
<1>2. /\ r \in TradeRecord /\ r.root = trades[t].root
      /\ r.marks = trades[t].marks /\ r.initiator = trades[t].initiator
      /\ r.quantity = trades[t].quantity
      /\ r.status = "completed" \/ (r.status = trades[t].status /\ r.actor = trades[t].actor)
  BY <1>1 DEF TradeRecord
<1>3. trades' = [trades EXCEPT ![t] = r]
  BY <1>1 DEF SettleRow
<1>4. facts' = facts /\ facts \subseteq Facts
  BY <1>1 DEF SettleRow, MailsTypeOK, mailHistory
<1>5. r.quantity <= trades[t].quantity
  BY <1>1, <1>2 DEF TradeRecord
<1>6. TrueRow(t)
  BY DEF IInv, RowInv
<1> HIDE DEF r
<1> QED
  BY <1>2, <1>3, <1>4, <1>5, <1>6, ChangeGrows DEF SettleRow, mailHistory, TrueRow

LEMMA SplitGrows ==
  ASSUME IInv, NEW t \in TradeRows, NEW u \in Sides, SplitRow(t, u)
  PROVE  Growth
<1>0. PICK n : n = Len(trades) + 1
  OBVIOUS
<1> DEFINE q    == [trades[t] EXCEPT !.quantity = trades[t].quantity - 1]
           rest == [trades EXCEPT ![t] = q]
           r    == [trades[t] EXCEPT !.quantity = 1, !.actor = u, !.settled = @ \cup {u},
                      !.status = IF Opposite(u) \in trades[t].settled
                                   THEN "completed" ELSE "reserved",
                      !.marks = SplitMarks(t)]
<1>1. /\ MailsTypeOK /\ Len(trades) \in Nat /\ TradeRows \subseteq 1..MaxLetters
      /\ n <= MaxLetters /\ trades \in Seq(TradeRecord) /\ trades[t] \in TradeRecord
      /\ trades[t].quantity > 1 /\ n \notin TradeRows /\ n \in 1..MaxLetters
  BY <1>0, RowsAreTyped DEF IInv, SplitRow, TradeRows
<1>2. TrueRow(t) /\ trades[t].root = t
  BY <1>1 DEF IInv, RowInv, TrueRow
<1>3. /\ q \in TradeRecord /\ q.quantity = trades[t].quantity - 1 /\ q.root = t
      /\ q.marks = trades[t].marks /\ q.initiator = trades[t].initiator
      /\ q.status = trades[t].status /\ q.actor = trades[t].actor
  <2>1. trades[t].quantity - 1 \in 1..2
    BY <1>1 DEF TradeRecord
  <2> QED
    BY <1>1, <1>2, <2>1 DEF TradeRecord
<1>4. r \in TradeRecord /\ r.quantity = 1 /\ r.root = t /\ r.marks \subseteq trades[t].marks
  <2>1. SplitMarks(t) \in SUBSET Markers /\ SplitMarks(t) \subseteq trades[t].marks
    BY <1>1 DEF TradeRecord, SplitMarks
  <2>2. trades[t].settled \cup {u} \in SUBSET Sides
    BY <1>1 DEF TradeRecord
  <2>3. 1 \in 1..2 /\ u \in Sides \cup {Nobody}
    OBVIOUS
  <2> QED
    BY <1>1, <1>2, <2>1, <2>2, <2>3 DEF TradeRecord
<1>5. trades' = Append(rest, r)
  BY <1>1 DEF SplitRow
<1> HIDE DEF q, r
<1>6. /\ rest \in Seq(TradeRecord) /\ Len(rest) = Len(trades)
      /\ rest[t] = q /\ \A s \in TradeRows \ {t} : rest[s] = trades[s]
  BY <1>1, <1>3 DEF TradeRows
<1> HIDE DEF rest
<1>7. /\ trades' \in Seq(TradeRecord) /\ Len(trades') = n /\ TradeRows' = TradeRows \cup {n}
      /\ trades'[n] = r /\ \A s \in TradeRows : trades'[s] = rest[s]
  BY <1>0, <1>1, <1>4, <1>5, <1>6, RowAppended
<1>8. UNCHANGED <<topic, instant, flush, mailHistory>>
  BY DEF SplitRow
<1>9. RowInv'
  <2>1. \A s \in TradeRows \ {t} : TrueRow(s)'
    BY <1>6, <1>7, <1>8 DEF IInv, RowInv, TrueRow, mailHistory
  <2>2. TrueRow(t)'
    BY <1>2, <1>3, <1>6, <1>7, <1>8 DEF TrueRow, mailHistory
  <2>3. TrueRow(n)'
    BY <1>1, <1>4, <1>7 DEF TrueRow
  <2> QED
    BY <1>7, <1>8, <2>1, <2>2, <2>3 DEF IInv, RowInv
<1>10. instant[n] = "none" /\ facts \subseteq Facts /\ Facts \subseteq Facts'
  BY <1>1, <1>7 DEF IInv, RowInv, MailsTypeOK, Facts
<1>11. \A m \in r.marks : /\ r.root \in TradeRows /\ trades[r.root].root = r.root
                          /\ m \in trades[r.root].marks
  BY <1>2, <1>4
<1> QED
  BY <1>1, <1>2, <1>3, <1>6, <1>7, <1>8, <1>9, <1>10, <1>11 DEF Growth, MailsTypeOK, mailHistory

-----------------------------------------------------------------------------
(* The mails. *)

(* Trade rows get markers, and nothing else happens to them.               *)
Marked ==
  /\ trades' \in Seq(TradeRecord) /\ Len(trades') = Len(trades) /\ TradeRows' = TradeRows
  /\ \A t \in TradeRows :
       /\ trades'[t].status = trades[t].status /\ trades'[t].root = trades[t].root
       /\ trades'[t].initiator = trades[t].initiator /\ trades'[t].actor = trades[t].actor
       /\ trades'[t].quantity = trades[t].quantity
       /\ trades[t].marks \subseteq trades'[t].marks

LEMMA UnchangedIsMarked ==
  ASSUME MailsTypeOK, trades' = trades
  PROVE  Marked
  BY DEF Marked, MailsTypeOK, TradeRows

LEMMA StampedIsMarked ==
  ASSUME MailsTypeOK, NEW rows \in SUBSET Facts, trades' = Stamped(rows)
  PROVE  /\ Marked
         /\ \A t \in TradeRows : trades'[t].marks =
              trades[t].marks \cup {Marker(l.event) : l \in {k \in rows : k.row = t}}
<1> DEFINE more(t) == {Marker(l.event) : l \in {k \in rows : k.row = t}}
           row(t)  == [trades[t] EXCEPT !.marks = trades[t].marks \cup more(t)]
<1>1. /\ Len(trades) \in Nat /\ DOMAIN trades = TradeRows
      /\ \A t \in TradeRows : trades[t] \in TradeRecord
  BY RowsAreTyped
<1>2. \A t \in TradeRows : more(t) \subseteq Markers
  BY FactFields DEF Marker, Events, Markers
<1> HIDE DEF more
<1>3. \A t \in TradeRows :
        /\ row(t) \in TradeRecord /\ row(t).marks = trades[t].marks \cup more(t)
        /\ row(t).status = trades[t].status /\ row(t).root = trades[t].root
        /\ row(t).initiator = trades[t].initiator /\ row(t).actor = trades[t].actor
        /\ row(t).quantity = trades[t].quantity
  BY <1>1, <1>2 DEF TradeRecord
<1>4. trades' = [t \in 1..Len(trades) |-> row(t)]
  BY <1>1 DEF Stamped, TradeRows, more
<1> HIDE DEF row
<1>5. trades' \in Seq(TradeRecord) /\ Len(trades') = Len(trades)
  BY <1>1, <1>3, <1>4 DEF TradeRows
<1>6. TradeRows' = TradeRows /\ \A t \in TradeRows : trades'[t] = row(t)
  BY <1>1, <1>4, <1>5 DEF TradeRows
<1>7. Marked
  BY <1>3, <1>5, <1>6 DEF Marked
<1> QED
  BY <1>3, <1>6, <1>7 DEF more

LEMMA MarkedKeepsRows ==
  ASSUME IInv, Marked, facts' = facts,
         instant' \in [1..MaxLetters -> {"none", "start", "claimed", "sent"}],
         \A t \in 1..MaxLetters \ TradeRows : instant'[t] = instant[t]
  PROVE  RowInv' /\ Facts' = Facts
<1>1. Facts' = Facts
  BY DEF Marked, Facts
<1>2. \A t \in TradeRows : TrueRow(t)'
  BY DEF IInv, RowInv, TrueRow, Marked
<1> QED
  BY <1>1, <1>2 DEF RowInv, IInv, Marked

(* What the types say of the mails under way.                              *)
LEMMA MailTypes ==
  ASSUME IInv
  PROVE  /\ MailsTypeOK /\ Len(trades) \in Nat /\ TradeRows \subseteq 1..MaxLetters
         /\ \A t \in TradeRows : trades[t] \in TradeRecord
         /\ told \subseteq Facts /\ flush.listed \subseteq Facts /\ flush.letter \subseteq Facts
         /\ \A l \in told \cup flush.listed \cup flush.letter :
              l.row \in TradeRows /\ Marker(l.event) \in Markers
<1>1. MailsTypeOK
  BY DEF IInv
<1>2. told \subseteq Facts /\ flush.listed \subseteq Facts /\ flush.letter \subseteq Facts
  BY <1>1 DEF MailsTypeOK
<1>3. \A l \in Facts : l.row \in TradeRows /\ Marker(l.event) \in Markers
  BY <1>1, FactFields DEF Marker, Markers, Events
<1> QED
  BY <1>1, <1>2, <1>3, RowsAreTyped

LEMMA RequestFact ==
  ASSUME IInv, NEW t \in TradeRows
  PROVE  LET f == Fact(t, "request", trades[t].initiator)
         IN  f \in Facts /\ f.row = t /\ Marker(f.event) = "request" /\ Truthful(f)
<1>1. trades[t].initiator \in Sides
  BY MailTypes DEF TradeRecord
<1>2. TrueRow(t)
  BY DEF IInv, RowInv
<1> QED
  BY <1>1, <1>2 DEF Fact, Facts, Events, Marker, Truthful, TrueRow

LEMMA InstantClaimStep ==
  ASSUME IInv, NEW t \in TradeRows, InstantClaim(t)
  PROVE  IInv'
<1>1. /\ UNCHANGED <<trades, topic, flush, mailHistory>> /\ t \in 1..MaxLetters
      /\ instant[t] = "start" /\ \A s \in 1..MaxLetters \ {t} : instant'[s] = instant[s]
      /\ instant'[t] \in {"claimed", "none"}
      /\ instant'[t] = "claimed" => "request" \notin trades[t].marks
      /\ instant' \in [1..MaxLetters -> {"none", "start", "claimed", "sent"}]
  BY MailTypes DEF InstantClaim, MailsTypeOK
<1>2. TradeRows' = TradeRows /\ Facts' = Facts
  BY <1>1 DEF TradeRows, Facts
<1>3. MailsTypeOK'
  BY <1>1, <1>2 DEF IInv, MailsTypeOK, mailHistory
<1>4. RowInv'
  BY <1>1, <1>2 DEF IInv, RowInv, TrueRow, mailHistory
<1>5. OnceInv'
  BY <1>1, <1>2, MailTypes DEF IInv, OnceInv, EachMailOnce, Spent, Claims, RowLocked, mailHistory
<1>6. TruthInv'
  BY <1>1 DEF IInv, TruthInv, MailsAreTrue, Truthful, mailHistory
<1>7. MarksInv'
  BY <1>1, <1>2, MailTypes DEF IInv, MarksInv, MarksAreExplained, Explained, mailHistory
<1> QED
  BY <1>3, <1>4, <1>5, <1>6, <1>7 DEF IInv

LEMMA InstantSendStep ==
  ASSUME IInv, NEW t \in TradeRows, InstantSend(t)
  PROVE  IInv'
<1>0. PICK f : f = Fact(t, "request", trades[t].initiator)
  OBVIOUS
<1>1. /\ f \in Facts /\ f.row = t /\ Marker(f.event) = "request" /\ Truthful(f)
      /\ Claims({f}) = {<<t, "request">>}
  BY <1>0, RequestFact DEF Claims
<1>2. /\ UNCHANGED <<trades, topic, flush, facts, undone, aborts>> /\ t \in 1..MaxLetters
      /\ instant[t] = "claimed" /\ \A s \in 1..MaxLetters \ {t} : instant'[s] = instant[s]
      /\ instant'[t] = "sent"
      /\ instant' \in [1..MaxLetters -> {"none", "start", "claimed", "sent"}]
  BY MailTypes DEF InstantSend, MailsTypeOK
<1>3. \/ /\ told' = told \cup {f} /\ dropped' = dropped
         /\ again' = again \cup (Claims({f}) \cap Claims(told))
      \/ /\ dropped' = dropped \cup Claims({f}) /\ told' = told /\ again' = again
  BY <1>0 DEF InstantSend, Leaves, Lost
<1>4. TradeRows' = TradeRows /\ Facts' = Facts
  BY <1>2 DEF TradeRows, Facts
<1>5. "request" \notin trades[t].marks
  BY <1>2 DEF IInv, OnceInv, RowLocked
<1>6. <<t, "request">> \in Claims(told) => t \in undone
  <2>1. ASSUME NEW l \in told, l.row = t, Marker(l.event) = "request"
        PROVE  t \in undone
    BY <1>2, <1>5, <2>1 DEF IInv, OnceInv, Spent
  <2> QED
    BY <2>1 DEF Claims
<1>7. <<t, "request">> \notin Claims(flush.letter)
  BY <1>5 DEF IInv, OnceInv, Claims
<1>8. MailsTypeOK'
  <2>1. Claims({f}) \subseteq TradeRows \X Markers
    BY <1>1 DEF Markers
  <2>2. dropped' \subseteq TradeRows \X Markers /\ told' \subseteq Facts
    BY <1>1, <1>3, <2>1 DEF IInv, MailsTypeOK
  <2> QED
    BY <1>2, <1>4, <2>2 DEF IInv, MailsTypeOK
<1>9. RowInv'
  BY <1>2, <1>4 DEF IInv, RowInv, TrueRow
<1>10. OnceInv'
  <2>1. EachMailOnce'
    <3>1. Claims({f}) \cap Claims(told) \subseteq undone \X {"request"}
      BY <1>1, <1>6
    <3> QED
      BY <1>2, <1>3, <3>1 DEF IInv, OnceInv, EachMailOnce
  <2>2. \A l \in told' : Spent(l)'
    BY <1>1, <1>2, <1>3, MailTypes DEF IInv, OnceInv, Spent
  <2>3. Claims(told') \subseteq Claims(told) \cup {<<t, "request">>}
    BY <1>1, <1>3 DEF Claims
  <2>4. (Claims(flush.letter) \cap Claims(told))' \subseteq undone' \X {"request"}
    BY <1>2, <1>7, <2>3 DEF IInv, OnceInv, Claims
  <2> QED
    BY <1>2, <1>4, <1>5, <2>1, <2>2, <2>4, MailTypes DEF IInv, OnceInv, RowLocked
<1>11. TruthInv'
  BY <1>1, <1>2, <1>3 DEF IInv, TruthInv, MailsAreTrue, Truthful
<1>12. MarksInv'
  <2>1. Explained(t, "request")'
    BY <1>1, <1>3 DEF Explained
  <2>2. \A s, m : Explained(s, m) => Explained(s, m)'
    BY <1>2, <1>3 DEF Explained
  <2>3. MarksAreExplained'
    BY <1>2, <1>4, <2>2, MarksExplained DEF IInv, MarksInv
  <2> QED
    BY <1>2, <1>4, <2>1, <2>2, <2>3, MailTypes DEF IInv, MarksInv
<1> QED
  BY <1>8, <1>9, <1>10, <1>11, <1>12 DEF IInv

LEMMA InstantCommitStep ==
  ASSUME IInv, NEW t \in TradeRows, InstantCommit(t)
  PROVE  IInv'
<1> DEFINE r == [trades[t] EXCEPT !.marks = trades[t].marks \cup {"request"}]
<1>1. /\ UNCHANGED <<topic, flush, facts, told, again, undone, dropped, aborts>>
      /\ t \in 1..MaxLetters /\ instant[t] = "sent" /\ instant'[t] = "none"
      /\ \A s \in 1..MaxLetters \ {t} : instant'[s] = instant[s]
      /\ instant' \in [1..MaxLetters -> {"none", "start", "claimed", "sent"}]
      /\ trades' = [trades EXCEPT ![t] = r]
  BY MailTypes, RowsAreTyped DEF InstantCommit, MailsTypeOK, mailHistory
<1>2. r \in TradeRecord
  <2>1. trades[t] \in TradeRecord
    BY MailTypes
  <2>2. trades[t].marks \cup {"request"} \in SUBSET Markers
    BY <2>1 DEF TradeRecord, Markers
  <2> QED
    BY <2>1, <2>2 DEF TradeRecord
<1>3. /\ r.status = trades[t].status /\ r.root = trades[t].root
      /\ r.initiator = trades[t].initiator /\ r.actor = trades[t].actor
      /\ r.quantity = trades[t].quantity /\ r.marks = trades[t].marks \cup {"request"}
  BY MailTypes DEF TradeRecord
<1> HIDE DEF r
<1>4. /\ trades' \in Seq(TradeRecord) /\ TradeRows' = TradeRows /\ Len(trades') = Len(trades)
      /\ trades'[t] = r /\ \A s \in TradeRows \ {t} : trades'[s] = trades[s]
  BY <1>1, <1>2, RowChanged, MailTypes
<1>5. Marked
  BY <1>3, <1>4 DEF Marked
<1>6. RowInv' /\ Facts' = Facts
  BY <1>1, <1>5, MarkedKeepsRows
<1>7. MailsTypeOK'
  BY <1>1, <1>4, <1>6 DEF IInv, MailsTypeOK
<1>8. OnceInv'
  <2>1. ASSUME NEW l \in told PROVE Spent(l)'
    <3>1. l.row \in TradeRows /\ Spent(l)
      BY MailTypes DEF IInv, OnceInv
    <3>2. CASE l.row = t
      BY <1>1, <1>3, <1>4, <3>1, <3>2 DEF Spent
    <3>3. CASE l.row # t
      BY <1>1, <1>4, <3>1, <3>3, MailTypes DEF Spent
    <3> QED
      BY <3>2, <3>3
  <2>2. \A l \in flush.letter' : Marker(l.event) \in trades'[l.row].marks
    BY <1>1, <1>3, <1>4, MailTypes DEF IInv, OnceInv
  <2>3. \A s \in TradeRows' : RowLocked(s)' => "request" \notin trades'[s].marks
    BY <1>1, <1>4, MailTypes DEF IInv, OnceInv, RowLocked
  <2> QED
    BY <1>1, <2>1, <2>2, <2>3 DEF IInv, OnceInv, EachMailOnce, Claims
<1>9. TruthInv'
  BY <1>1, <1>5, MailTypes DEF IInv, TruthInv, MailsAreTrue, Truthful, Marked
<1>10. MarksInv'
  <2>1. \A s \in TradeRows : \A m : Explained(s, m) => Explained(s, m)'
    <3>1. \A s \in TradeRows : trades'[s].root = trades[s].root
      BY <1>5 DEF Marked
    <3>2. UNCHANGED <<flush, told, dropped>>
      BY <1>1
    <3> QED
      BY <3>1, <3>2 DEF Explained
  <2>2. Explained(t, "request")'
    BY <1>1, <2>1 DEF IInv, MarksInv
  <2>3. MarksAreExplained'
    BY <1>3, <1>4, <2>1, <2>2, MarksExplained DEF IInv, MarksInv
  <2> QED
    BY <1>1, <1>4, <2>1, <2>3, MailTypes DEF IInv, MarksInv
<1> QED
  BY <1>6, <1>7, <1>8, <1>9, <1>10 DEF IInv

LEMMA InstantAbortStep ==
  ASSUME IInv, NEW t \in TradeRows, InstantAbort(t)
  PROVE  IInv'
<1>1. /\ UNCHANGED <<trades, topic, flush, facts, told, again, dropped>>
      /\ t \in 1..MaxLetters /\ instant'[t] = "none" /\ aborts' \in 0..MaxAborts
      /\ \A s \in 1..MaxLetters \ {t} : instant'[s] = instant[s]
      /\ instant' \in [1..MaxLetters -> {"none", "start", "claimed", "sent"}]
      /\ undone \subseteq undone' /\ undone' \subseteq undone \cup {t}
      /\ instant[t] = "sent" => t \in undone'
  BY MailTypes DEF InstantAbort, MailsTypeOK
<1>2. TradeRows' = TradeRows /\ Facts' = Facts
  BY <1>1 DEF TradeRows, Facts
<1>3. MailsTypeOK'
  BY <1>1, <1>2 DEF IInv, MailsTypeOK
<1>4. RowInv'
  BY <1>1, <1>2 DEF IInv, RowInv, TrueRow
<1>5. OnceInv'
  <2>1. undone \X {"request"} \subseteq undone' \X {"request"}
    BY <1>1
  <2>2. \A l \in told' : Spent(l)'
    BY <1>1, MailTypes DEF IInv, OnceInv, Spent
  <2>3. \A s \in TradeRows' : RowLocked(s)' => "request" \notin trades'[s].marks
    BY <1>1, <1>2, MailTypes DEF IInv, OnceInv, RowLocked
  <2> QED
    BY <1>1, <2>1, <2>2, <2>3 DEF IInv, OnceInv, EachMailOnce, Claims
<1>6. TruthInv'
  BY <1>1 DEF IInv, TruthInv, MailsAreTrue, Truthful
<1>7. MarksInv'
  BY <1>1, <1>2, MailTypes DEF IInv, MarksInv, MarksAreExplained, Explained
<1> QED
  BY <1>3, <1>4, <1>5, <1>6, <1>7 DEF IInv

LEMMA LetterClaims ==
  ASSUME IInv
  PROVE  Claims(flush.letter) \subseteq TradeRows \X Markers
  BY MailTypes DEF Claims

LEMMA EndProcessStep ==
  ASSUME IInv, EndProcess
  PROVE  IInv'
<1>1. /\ UNCHANGED <<trades, topic, facts, told, again>> /\ flush' = Resting
      /\ aborts' \in 0..MaxAborts /\ dropped' = dropped \cup Claims(flush.letter)
      /\ instant' = [t \in 1..MaxLetters |-> "none"]
      /\ undone \subseteq undone' /\ undone' \subseteq 1..MaxLetters
      /\ \A t \in 1..MaxLetters : instant[t] = "sent" => t \in undone'
  BY MailTypes DEF EndProcess, MailsTypeOK, Lost
<1>2. TradeRows' = TradeRows /\ Facts' = Facts
  BY <1>1 DEF TradeRows, Facts
<1>3. undone' \subseteq TradeRows
  BY <1>1, MailTypes DEF IInv, RowInv, MailsTypeOK, EndProcess
<1>4. MailsTypeOK'
  BY <1>1, <1>2, <1>3, LetterClaims DEF IInv, MailsTypeOK, Resting
<1>5. RowInv'
  BY <1>1, <1>2 DEF IInv, RowInv, TrueRow
<1>6. OnceInv'
  <2>1. undone \X {"request"} \subseteq undone' \X {"request"}
    BY <1>1
  <2>2. \A l \in told' : Spent(l)'
    BY <1>1, MailTypes DEF IInv, OnceInv, Spent
  <2>3. \A s \in TradeRows' : ~RowLocked(s)'
    BY <1>1, <1>2, MailTypes DEF RowLocked
  <2>4. Claims(flush.letter)' = {}
    BY <1>1 DEF Claims, Resting
  <2> QED
    BY <1>1, <2>1, <2>2, <2>3, <2>4 DEF IInv, OnceInv, EachMailOnce, Resting
<1>7. TruthInv'
  BY <1>1 DEF IInv, TruthInv, MailsAreTrue, Truthful, Resting
<1>8. MarksInv'
  <2>1. \A s, m : Explained(s, m) => Explained(s, m)'
    <3>1. \A l \in flush.letter : <<l.row, Marker(l.event)>> \in dropped'
      BY <1>1 DEF Claims
    <3> QED
      BY <1>1, <3>1 DEF Explained
  <2>2. MarksAreExplained'
    BY <1>1, <1>2, <2>1, MarksExplained DEF IInv, MarksInv
  <2> QED
    BY <1>1, <1>2, <2>2, MailTypes DEF MarksInv
<1> QED
  BY <1>4, <1>5, <1>6, <1>7, <1>8 DEF IInv

-----------------------------------------------------------------------------
(* The flush jobs. *)

LEMMA QueuedIsTrue ==
  ASSUME IInv
  PROVE  Queued \subseteq Facts /\ \A l \in Queued : Truthful(l)
<1> SUFFICES ASSUME NEW l \in Queued PROVE l \in Facts /\ Truthful(l)
  OBVIOUS
<1>1. DOMAIN trades = TradeRows
  BY MailTypes, RowsAreTyped
<1>2. CASE topic = "request"
  <2>1. PICK t \in TradeRows : l = Fact(t, "request", trades[t].initiator)
    BY <1>1, <1>2 DEF Queued
  <2> QED
    BY <2>1, RequestFact
<1>3. CASE topic # "request"
  <2>1. PICK t \in TradeRows :
          /\ l = Fact(t, trades[t].status, trades[t].actor) /\ Attributed(t)
          /\ trades[t].status \in {"reserved", "declined", "cancelled"}
    BY <1>1, <1>3 DEF Queued
  <2>2. trades[t].actor \in Sides /\ TrueRow(t)
    BY <2>1, MailTypes DEF TradeRecord, Attributed, IInv, RowInv
  <2> QED
    BY <2>1, <2>2 DEF Fact, Facts, Events, Truthful, TrueRow, Attributed
<1> QED
  BY <1>2, <1>3

LEMMA FlushListStep ==
  ASSUME IInv, FlushList
  PROVE  IInv'
<1>1. /\ UNCHANGED <<trades, topic, instant, mailHistory>> /\ flush.letter = {}
      /\ flush' = [pc |-> "pairs", listed |-> Queued, letter |-> {},
                   todo |-> {l.actor : l \in Queued}]
  BY DEF FlushList, IInv, OnceInv
<1>2. TradeRows' = TradeRows /\ Facts' = Facts
  BY <1>1 DEF TradeRows, Facts
<1>3. {l.actor : l \in Queued} \subseteq Sides
  BY QueuedIsTrue DEF Facts
<1>4. MailsTypeOK'
  BY <1>1, <1>2, <1>3, QueuedIsTrue DEF IInv, MailsTypeOK, mailHistory
<1>5. RowInv'
  BY <1>1, <1>2 DEF IInv, RowInv, TrueRow, mailHistory
<1>6. OnceInv'
  BY <1>1, <1>2, MailTypes DEF IInv, OnceInv, EachMailOnce, Spent, Claims, RowLocked, mailHistory
<1>7. TruthInv'
  BY <1>1, QueuedIsTrue DEF IInv, TruthInv, MailsAreTrue, Truthful, mailHistory
<1>8. MarksInv'
  <2>1. \A s, m : Explained(s, m) => Explained(s, m)'
    BY <1>1 DEF Explained, mailHistory
  <2> QED
    BY <1>1, <1>2, <2>1, MarksExplained DEF IInv, MarksInv
<1> QED
  BY <1>4, <1>5, <1>6, <1>7, <1>8 DEF IInv

(* The rows of one sender are claimed: their markers are set, and what was *)
(* not marked yet is given up or becomes the letter.                       *)
LEMMA ClaimStep ==
  ASSUME IInv, NEW rows \in SUBSET flush.listed, \A l \in rows : ~RowLocked(l.row),
         trades' = Stamped(rows), flush.pc = "pairs",
         flush'.letter \in {{}, Claimed(rows)}, flush'.pc # "send" => flush'.letter = {},
         flush'.listed \subseteq flush.listed,
         flush' \in [pc : {"idle", "pairs", "send"}, listed : SUBSET Facts,
                     todo : SUBSET Sides, letter : SUBSET Facts],
         dropped' = dropped \cup Claims(Claimed(rows) \ flush'.letter),
         UNCHANGED <<topic, instant, facts, told, again, undone, aborts>>
  PROVE  IInv'
<1>1. /\ rows \subseteq Facts /\ flush.letter = {} /\ Claimed(rows) \subseteq rows
      /\ \A l \in rows : l.row \in TradeRows /\ Marker(l.event) \in Markers
  BY MailTypes DEF IInv, OnceInv, Claimed
<1>2. /\ Marked
      /\ \A t \in TradeRows : trades'[t].marks =
           trades[t].marks \cup {Marker(l.event) : l \in {k \in rows : k.row = t}}
  BY <1>1, MailTypes, StampedIsMarked
<1>3. RowInv' /\ Facts' = Facts /\ TradeRows' = TradeRows
  BY <1>2, MarkedKeepsRows DEF IInv, MailsTypeOK, Marked
<1>4. MailsTypeOK'
  <2>1. Claims(Claimed(rows) \ flush'.letter) \subseteq TradeRows \X Markers
    BY <1>1 DEF Claims
  <2> QED
    BY <1>2, <1>3, <2>1 DEF IInv, MailsTypeOK, Marked
<1>5. OnceInv'
  <2>1. \A l \in told' : Spent(l)'
    BY <1>2, MailTypes DEF IInv, OnceInv, Spent, Marked
  <2>2. \A l \in rows : Marker(l.event) \in trades'[l.row].marks
    BY <1>1, <1>2
  <2>3. \A l \in flush'.letter : Marker(l.event) \in trades'[l.row].marks
    BY <1>1, <2>2
  <2>4. \A t \in TradeRows' : RowLocked(t)' => "request" \notin trades'[t].marks
    BY <1>2, <1>3 DEF IInv, OnceInv, RowLocked
  <2>5. ASSUME NEW l \in Claimed(rows), NEW k \in told,
               k.row = l.row, Marker(k.event) = Marker(l.event)
        PROVE  l.row \in undone /\ Marker(l.event) = "request"
    <3>1. Spent(k) /\ Marker(l.event) \notin trades[l.row].marks /\ ~RowLocked(l.row)
      BY <1>1 DEF IInv, OnceInv, Claimed
    <3> QED
      BY <2>5, <3>1 DEF Spent, RowLocked
  <2>6. Claims(Claimed(rows)) \cap Claims(told) \subseteq undone \X {"request"}
    BY <2>5 DEF Claims
  <2>7. (Claims(flush.letter) \cap Claims(told))' \subseteq undone' \X {"request"}
    BY <2>6 DEF Claims
  <2> QED
    BY <2>1, <2>3, <2>4, <2>7 DEF IInv, OnceInv, EachMailOnce
<1>6. TruthInv'
  <2>1. \A l \in told \cup flush.listed : Truthful(l)' <=> Truthful(l)
    BY <1>2, MailTypes DEF Truthful, Marked
  <2>2. MailsAreTrue'
    BY <1>2, MailTypes DEF IInv, TruthInv, MailsAreTrue, Marked
  <2> QED
    BY <1>1, <2>1, <2>2 DEF IInv, TruthInv
<1>7. MarksInv'
  <2>1. \A s \in TradeRows : \A m : Explained(s, m) => Explained(s, m)'
    <3>1. \A s \in TradeRows : trades'[s].root = trades[s].root
      BY <1>2 DEF Marked
    <3>2. told' = told /\ dropped \subseteq dropped'
      OBVIOUS
    <3> QED
      BY <1>1, <3>1, <3>2 DEF Explained
  <2>2. ASSUME NEW s \in TradeRows', NEW m \in trades'[s].marks
        PROVE  Explained(s, m)'
    <3>1. CASE m \in trades[s].marks
      BY <1>3, <2>1, <3>1, MarksExplained DEF IInv, MarksInv
    <3>2. CASE m \notin trades[s].marks
      <4>1. PICK l \in rows : l.row = s /\ Marker(l.event) = m
        BY <1>2, <1>3, <2>2, <3>2
      <4>2. l \in Claimed(rows)
        BY <3>2, <4>1 DEF Claimed
      <4>3. CASE l \in flush'.letter
        BY <4>1, <4>3 DEF Explained
      <4>4. CASE l \notin flush'.letter
        <5>1. <<s, m>> \in dropped'
          BY <4>1, <4>2, <4>4 DEF Claims
        <5> QED
          BY <5>1 DEF Explained
      <4> QED
        BY <4>3, <4>4
    <3> QED
      BY <3>1, <3>2
  <2>3. MarksAreExplained'
    BY <2>2, MarksExplained
  <2> QED
    BY <1>3, <2>1, <2>3 DEF IInv, MarksInv
<1> QED
  BY <1>3, <1>4, <1>5, <1>6, <1>7 DEF IInv

(* A flush leaves the letter behind: it was empty, has left or was refused.*)
LEMMA PassStep ==
  ASSUME IInv, UNCHANGED <<trades, topic, instant, facts, undone, aborts>>,
         flush'.letter = {}, flush'.listed \subseteq flush.listed,
         flush' \in [pc : {"idle", "pairs", "send"}, listed : SUBSET Facts,
                     todo : SUBSET Sides, letter : SUBSET Facts],
         \/ Leaves(flush.letter) /\ UNCHANGED dropped
         \/ dropped' = Lost(flush.letter) /\ UNCHANGED <<told, again>>
  PROVE  IInv'
<1>1. TradeRows' = TradeRows /\ Facts' = Facts
  BY DEF TradeRows, Facts
<1>2. /\ told \subseteq told' /\ told' \subseteq told \cup flush.letter
      /\ dropped \subseteq dropped' /\ dropped' \subseteq dropped \cup Claims(flush.letter)
      /\ again' \subseteq again \cup (Claims(flush.letter) \cap Claims(told))
  BY DEF Leaves, Lost
<1>3. MailsTypeOK'
  BY <1>1, <1>2, MailTypes, LetterClaims DEF MailsTypeOK
<1>4. RowInv'
  BY <1>1 DEF IInv, RowInv, TrueRow
<1>5. OnceInv'
  <2>1. \A l \in told' : Spent(l)'
    BY <1>2 DEF IInv, OnceInv, Spent
  <2>2. EachMailOnce'
    BY <1>2 DEF IInv, OnceInv, EachMailOnce
  <2>3. Claims(flush.letter)' = {}
    BY DEF Claims
  <2> QED
    BY <1>1, <2>1, <2>2, <2>3 DEF IInv, OnceInv, RowLocked
<1>6. TruthInv'
  BY <1>2 DEF IInv, TruthInv, MailsAreTrue, Truthful
<1>7. MarksInv'
  <2>1. \A s, m : Explained(s, m) => Explained(s, m)'
    <3>1. \/ told' = told \cup flush.letter
          \/ \A l \in flush.letter : <<l.row, Marker(l.event)>> \in dropped'
      BY DEF Leaves, Lost, Claims
    <3> QED
      BY <1>2, <3>1 DEF Explained
  <2> QED
    BY <1>1, <2>1, MarksExplained DEF IInv, MarksInv
<1> QED
  BY <1>3, <1>4, <1>5, <1>6, <1>7 DEF IInv

LEMMA FlushSendStep ==
  ASSUME IInv, FlushSend
  PROVE  IInv'
<1>1. /\ flush'.letter = {} /\ flush'.listed \subseteq flush.listed
      /\ flush' \in [pc : {"idle", "pairs", "send"}, listed : SUBSET Facts,
                     todo : SUBSET Sides, letter : SUBSET Facts]
  BY DEF FlushSend, IInv, MailsTypeOK, Resting
<1> QED
  BY <1>1, PassStep DEF FlushSend

LEMMA FlushPairStep ==
  ASSUME IInv, FlushPair
  PROVE  IInv'
<1>1. PICK u \in flush.todo, p \in Cadences, due \in BOOLEAN :
        LET mine   == Claimed(PairRows(u))
            rest   == flush.todo \ {u}
            onward == IF rest = {} THEN Resting
                      ELSE [flush EXCEPT !.pc = "pairs", !.todo = rest, !.letter = {}]
        IN  /\ flush.pc = "pairs"
            /\ \A l \in PairRows(u) : ~RowLocked(l.row)
            /\ \/ /\ p = "off"
                  /\ trades' = Stamped(ToClaim(u)) /\ dropped' = Lost(mine)
                  /\ flush' = onward
               \/ /\ p = "later" /\ ~due
                  /\ flush' = onward
                  /\ UNCHANGED <<trades, dropped>>
               \/ /\ p = "instant" \/ (p = "later" /\ due)
                  /\ trades' = Stamped(ToClaim(u))
                  /\ flush' = IF mine = {} THEN onward
                              ELSE [flush EXCEPT !.pc = "send", !.todo = rest, !.letter = mine]
                  /\ UNCHANGED dropped
            /\ UNCHANGED <<topic, instant, facts, told, again, undone, aborts>>
  BY DEF FlushPair
<1>2. PICK rows : rows = PairRows(u)
  OBVIOUS
<1>3. PICK mine : mine = Claimed(rows)
  OBVIOUS
<1> DEFINE rest   == flush.todo \ {u}
           onward == IF rest = {} THEN Resting
                     ELSE [flush EXCEPT !.pc = "pairs", !.todo = rest, !.letter = {}]
           letter == [flush EXCEPT !.pc = "send", !.todo = rest, !.letter = mine]
           States == [pc : {"idle", "pairs", "send"}, listed : SUBSET Facts,
                      todo : SUBSET Sides, letter : SUBSET Facts]
<1>4. /\ flush \in States /\ flush.letter = {} /\ rows \in SUBSET flush.listed
      /\ mine \in SUBSET Facts /\ flush.pc = "pairs" /\ ToClaim(u) = rows
      /\ \A l \in rows : ~RowLocked(l.row)
  BY <1>1, <1>2, <1>3 DEF IInv, MailsTypeOK, OnceInv, PairRows, Claimed, ToClaim
<1>5. /\ onward \in States /\ onward.letter = {} /\ onward.listed \subseteq flush.listed
  BY <1>4 DEF Resting
<1>6. /\ letter \in States /\ letter.letter = mine /\ letter.listed = flush.listed
      /\ letter.pc = "send"
  BY <1>4
<1>7. UNCHANGED <<topic, instant, facts, told, again, undone, aborts>>
  BY <1>1
<1>8. CASE trades' = Stamped(rows) /\ dropped' = Lost(mine) /\ flush' = onward
  <2>1. dropped' = dropped \cup Claims(Claimed(rows) \ flush'.letter)
    BY <1>3, <1>5, <1>8 DEF Lost
  <2> HIDE DEF onward
  <2> QED
    BY <1>4, <1>5, <1>7, <1>8, <2>1, ClaimStep
<1>9. CASE flush' = onward /\ UNCHANGED <<trades, dropped>>
  <2>1. dropped' = Lost(flush.letter)
    BY <1>4, <1>9 DEF Lost, Claims
  <2> HIDE DEF onward
  <2> QED
    BY <1>4, <1>5, <1>7, <1>9, <2>1, PassStep
<1>10. CASE trades' = Stamped(rows) /\ UNCHANGED dropped /\ flush' = onward /\ mine = {}
  <2>1. dropped' = dropped \cup Claims(Claimed(rows) \ flush'.letter)
    BY <1>3, <1>10 DEF Claims
  <2> HIDE DEF onward
  <2> QED
    BY <1>4, <1>5, <1>7, <1>10, <2>1, ClaimStep
<1>11. CASE trades' = Stamped(rows) /\ UNCHANGED dropped /\ flush' = letter
  <2>1. dropped' = dropped \cup Claims(Claimed(rows) \ flush'.letter)
    BY <1>3, <1>6, <1>11 DEF Claims
  <2> HIDE DEF letter
  <2> QED
    BY <1>3, <1>4, <1>6, <1>7, <1>11, <2>1, ClaimStep
<1> QED
  BY <1>1, <1>2, <1>3, <1>4, <1>8, <1>9, <1>10, <1>11

-----------------------------------------------------------------------------
(* The theorems. *)

LEMMA NextKeepsIInv ==
  ASSUME IInv, [MailsNext]_mailVars
  PROVE  IInv'
<1>1. DOMAIN trades = TradeRows
  BY MailTypes, RowsAreTyped
<1>2. CASE TradeSteps
  BY <1>1, <1>2, CreateGrows, AnswerGrows, SettleGrows, SplitGrows, CloseGrows, GrowthKeepsIInv
     DEF TradeSteps
<1>3. CASE FlushStep
  BY <1>3, FlushListStep, FlushPairStep, FlushSendStep DEF FlushStep
<1>4. ASSUME NEW t \in DOMAIN trades, InstantStep(t) \/ InstantAbort(t)
      PROVE  IInv'
  BY <1>1, <1>4, InstantClaimStep, InstantSendStep, InstantCommitStep, InstantAbortStep
     DEF InstantStep
<1>5. CASE UNCHANGED mailVars
  <2>1. TradeRows' = TradeRows /\ Facts' = Facts
    BY <1>5 DEF mailVars, mailHistory, TradeRows, Facts
  <2>2. MailsTypeOK' /\ RowInv'
    BY <1>5, <2>1 DEF mailVars, mailHistory, IInv, MailsTypeOK, RowInv, TrueRow
  <2>3. OnceInv' /\ TruthInv'
    BY <1>5, <2>1 DEF mailVars, mailHistory, IInv, OnceInv, EachMailOnce, Spent, Claims,
                      RowLocked, TruthInv, MailsAreTrue, Truthful
  <2>4. MarksInv'
    BY <1>5, <2>1 DEF mailVars, mailHistory, IInv, MarksInv, MarksAreExplained, Explained
  <2> QED
    BY <2>2, <2>3, <2>4 DEF IInv
<1> QED
  BY <1>2, <1>3, <1>4, <1>5, EndProcessStep DEF MailsNext

LEMMA AlwaysIInv == MailsSpec => []IInv
<1>1. IInv /\ [MailsNext]_mailVars => IInv'
  BY NextKeepsIInv
<1> QED
  BY AtStart, <1>1, PTL DEF MailsSpec

(* Rows, mails and history keep their types; no mail comes from nobody.    *)
THEOREM MailsKeepTheirTypes == MailsSpec => []MailsTypeOK
<1>1. IInv => MailsTypeOK
  BY DEF IInv
<1> QED
  BY AlwaysIInv, <1>1, PTL

(* No mail leaves twice, whichever of the instant path and the flushes     *)
(* gets to it, unless the claim of a mail that had left was rolled back.   *)
THEOREM MailsLeaveOnce == MailsSpec => []EachMailOnce
<1>1. IInv => EachMailOnce
  BY DEF IInv, OnceInv
<1> QED
  BY AlwaysIInv, <1>1, PTL

(* Every mail about a trade of its own tells what a member really did,     *)
(* however much the trade moves on while the mail is under way.            *)
THEOREM MailsTellTheTruth == MailsSpec => []MailsAreTrue
<1>1. IInv => MailsAreTrue
  BY DEF IInv, TruthInv
<1> QED
  BY AlwaysIInv, <1>1, PTL

(* No marker stands for nothing: its mail has left, is about to leave, or  *)
(* was given up.                                                           *)
THEOREM MarksStandForMails == MailsSpec => []MarksAreExplained
<1>1. IInv => MarksAreExplained
  BY DEF IInv, MarksInv
<1> QED
  BY AlwaysIInv, <1>1, PTL
=============================================================================
