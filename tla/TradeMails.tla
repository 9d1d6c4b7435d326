----------------------------- MODULE TradeMails -----------------------------
(***************************************************************************)
(* The e-mails about trades between one giver and one receiver: the        *)
(* request mail sent as a trade is created, the two jobs that send what is *)
(* queued, and the markers on the trade rows by which each claims a mail   *)
(* before it sends it.                                                     *)
(*                                                                         *)
(* A marker is claimed by one statement and the mail leaves some time      *)
(* later, so that trades go on, settings change and the process ends in    *)
(* between.  One flush of a kind is under way at a time (OneBody of module *)
(* JobRuns).  The trade's own rules are those of CardTrades, reduced to    *)
(* what the mails depend on.                                               *)
(***************************************************************************)
EXTENDS Naturals, Sequences, FiniteSets

CONSTANTS
  MaxLetters,   \* bound on the trade rows, splits included
  MaxAborts     \* bound on the ends of the process or of a connection

ASSUME MailAssumption == MaxLetters \in Nat \ {0} /\ MaxAborts \in Nat

VARIABLES
  trades,    \* card_trades, in the order of creation
  topic,     \* the mails a behaviour is about
  instant,   \* sendTradeRequestEmail for a row, inside its transaction
  flush      \* flushCoalescedTradeRequests or flushTradeStatusEmails

VARIABLES    \* history
  facts,     \* what a member did, as mails would tell it
  told,      \* the mails that have left
  again,     \* rows and markers of those that have left twice
  undone,    \* rows whose claim was rolled back after their mail had left
  dropped,   \* rows and markers claimed for a mail that did not leave
  aborts

mailHistory == <<facts, told, again, undone, dropped, aborts>>
mailVars    == <<trades, topic, instant, flush, mailHistory>>

Queues   == {"request", "status"}
Cadences == {"off", "instant", "later"}   \* "off": no mails at all
Sides   == {"giver", "receiver"}
Opposite(u) == IF u = "giver" THEN "receiver" ELSE "giver"
Nobody  == "nobody"
Markers == {"request", "reserved", "closed"}
Marker(event) == IF event \in {"declined", "cancelled"} THEN "closed" ELSE event

Resting == [pc |-> "idle", listed |-> {}, todo |-> {}, letter |-> {}]

Fact(t, event, actor) == [row |-> t, event |-> event, actor |-> actor]
NewTrade(t, u) == [status |-> "pending", initiator |-> u, actor |-> u, quantity |-> 2,
                   settled |-> {}, marks |-> {}, root |-> t]

(* The two members are alike: the first trade is the receiver's request.   *)
MailsInit ==
  /\ trades = <<NewTrade(1, "receiver")>> /\ topic \in Queues
  /\ instant = [t \in 1..MaxLetters |-> IF t = 1 /\ topic = "request" THEN "start" ELSE "none"]
  /\ flush = Resting
  /\ facts = {Fact(1, "request", "receiver")}
  /\ told = {} /\ again = {} /\ undone = {} /\ dropped = {} /\ aborts = 0

-----------------------------------------------------------------------------
(* The trades.  The instant mail is sent inside a transaction that has     *)
(* claimed the row, so that whoever writes to the row waits for the mail.  *)

RowLocked(t) == instant[t] \in {"claimed", "sent"}

CreateTradeRow(u) ==
  LET t == Len(trades) + 1
  IN  /\ t <= MaxLetters
      /\ trades' = Append(trades, NewTrade(t, u))
      /\ instant' = [instant EXCEPT ![t] = IF topic = "request" THEN "start" ELSE "none"]
      /\ facts' = facts \cup {Fact(t, "request", u)}
      /\ UNCHANGED <<topic, flush, told, again, undone, dropped, aborts>>

(* The answer of the other member; either member takes a trade back, also  *)
(* by leaving the group.                                                   *)
AnswersOf(t, u) ==
  (IF trades[t].status = "pending" /\ u # trades[t].initiator
   THEN {"reserved", "declined"} ELSE {}) \cup {"cancelled"}
ActorAfter_Kept(t, u) == trades[t].actor
ActorAfter(t, u) == u
AnswerTrade(t, u, event) ==
  /\ ~RowLocked(t) /\ event \in AnswersOf(t, u)
  /\ trades[t].status \in {"pending", "reserved"} /\ trades[t].settled = {}
  /\ trades' = [trades EXCEPT ![t].status = event, ![t].actor = ActorAfter(t, u)]
  /\ facts' = facts \cup {Fact(t, event, u)}
  /\ UNCHANGED <<topic, instant, flush, told, again, undone, dropped, aborts>>

(* Expiry, the sweep, a deleted group or account.                          *)
CloseBySystem(t) ==
  /\ ~RowLocked(t) /\ trades[t].status \in {"pending", "reserved"}
  /\ trades' = [trades EXCEPT ![t].status = "cancelled", ![t].actor = Nobody]
  /\ UNCHANGED <<topic, instant, flush, mailHistory>>

(* A full settlement, and a partial one, whose new row has the markers of  *)
(* the row it was split off.  A request mail is about pending rows only.   *)
SettleRow(t, u) ==
  /\ ~RowLocked(t) /\ topic = "status"
  /\ trades[t].status = "reserved" /\ u \notin trades[t].settled
  /\ trades' = [trades EXCEPT
       ![t].settled = @ \cup {u},
       ![t].status = IF Opposite(u) \in trades[t].settled THEN "completed" ELSE @,
       ![t].actor = IF Opposite(u) \in trades[t].settled THEN u ELSE @]
  /\ UNCHANGED <<topic, instant, flush, mailHistory>>

SplitMarks(t) == trades[t].marks \cap {"request", "reserved"}
SplitRow(t, u) ==
  /\ ~RowLocked(t) /\ topic = "status"
  /\ trades[t].status = "reserved" /\ u \notin trades[t].settled
  /\ trades[t].quantity > 1 /\ Len(trades) < MaxLetters
  /\ trades' = Append([trades EXCEPT ![t].quantity = @ - 1],
                      [trades[t] EXCEPT !.quantity = 1, !.actor = u,
                                        !.settled = @ \cup {u},
                                        !.status = IF Opposite(u) \in trades[t].settled
                                                     THEN "completed" ELSE "reserved",
                                        !.marks = SplitMarks(t)])
  /\ UNCHANGED <<topic, instant, flush, mailHistory>>

-----------------------------------------------------------------------------
(* Mails *)

Claims(letter) == {<<l.row, Marker(l.event)>> : l \in letter}
Leaves(letter) ==
  /\ told' = told \cup letter
  /\ again' = again \cup (Claims(letter) \cap Claims(told))
Lost(letter) == dropped \cup Claims(letter)

(* The claim statement: the rows whose marker is not set yet.              *)
Claimed_Listed(rows) == rows
Claimed(rows) == {l \in rows : Marker(l.event) \notin trades[l.row].marks}
Stamped(rows) ==
  [t \in DOMAIN trades |->
     [trades[t] EXCEPT !.marks = @ \cup {Marker(l.event) : l \in {k \in rows : k.row = t}}]]

(* sendTradeRequestEmail: the claim is committed after the mail has left.  *)
InstantClaim(t) ==
  /\ instant[t] = "start"
  /\ \E p \in Cadences, on \in BOOLEAN :
       instant' = [instant EXCEPT ![t] =
         IF on /\ p = "instant" /\ "request" \notin trades[t].marks THEN "claimed" ELSE "none"]
  /\ UNCHANGED <<trades, topic, flush, mailHistory>>

InstantSend(t) ==
  LET letter == {Fact(t, "request", trades[t].initiator)}
  IN  /\ instant[t] = "claimed" /\ instant' = [instant EXCEPT ![t] = "sent"]
      /\ \/ Leaves(letter) /\ UNCHANGED dropped
         \/ dropped' = Lost(letter) /\ UNCHANGED <<told, again>>
      /\ UNCHANGED <<trades, topic, flush, facts, undone, aborts>>

InstantCommit(t) ==
  /\ instant[t] = "sent" /\ instant' = [instant EXCEPT ![t] = "none"]
  /\ trades' = [trades EXCEPT ![t].marks = @ \cup {"request"}]
  /\ UNCHANGED <<topic, flush, mailHistory>>

-----------------------------------------------------------------------------
(* The flush jobs *)

Attributed(t) == trades[t].actor # Nobody
Queued ==
  IF topic = "request"
  THEN {Fact(t, "request", trades[t].initiator) : t \in
          {t \in DOMAIN trades : trades[t].status = "pending" /\ "request" \notin trades[t].marks}}
  ELSE {Fact(t, trades[t].status, trades[t].actor) : t \in
          {t \in DOMAIN trades : /\ trades[t].status \in {"reserved", "declined", "cancelled"}
                                 /\ Attributed(t)
                                 /\ Marker(trades[t].status) \notin trades[t].marks}}

FlushList ==
  /\ flush.pc = "idle" /\ Queued # {}
  /\ flush' = [pc |-> "pairs", listed |-> Queued, letter |-> {},
                 todo |-> {l.actor : l \in Queued}]
  /\ UNCHANGED <<trades, topic, instant, mailHistory>>

(* One sender's rows: an opted-out recipient's are claimed and dropped,    *)
(* those of a burst that is not due stay.                                  *)
PairRows(u) == {l \in flush.listed : l.actor = u}
ToClaim_All(u) == flush.listed
ToClaim(u) == PairRows(u)

FlushPair ==
  \E u \in flush.todo, p \in Cadences, due \in BOOLEAN :
    LET mine   == Claimed(PairRows(u))
        rest   == flush.todo \ {u}
        onward == IF rest = {} THEN Resting
                  ELSE [flush EXCEPT !.pc = "pairs", !.todo = rest, !.letter = {}]
    IN  /\ flush.pc = "pairs"
        /\ \A l \in PairRows(u) : ~RowLocked(l.row)
        /\ \/ /\ p = "off"
              /\ trades' = Stamped(ToClaim(u)) /\ dropped' = Lost(mine)
              /\ flush' = onward
           \/ /\ p = "later" /\ ~due
              /\ flush' = onward
              /\ UNCHANGED <<trades, dropped>>
           \/ /\ p = "instant" \/ (p = "later" /\ due)
              /\ trades' = Stamped(ToClaim(u))
              /\ flush' = IF mine = {} THEN onward
                          ELSE [flush EXCEPT !.pc = "send", !.todo = rest, !.letter = mine]
              /\ UNCHANGED dropped
        /\ UNCHANGED <<topic, instant, facts, told, again, undone, aborts>>

FlushSend ==
  LET letter == flush.letter
  IN  /\ flush.pc = "send"
      /\ flush' = IF flush.todo = {} THEN Resting
                  ELSE [flush EXCEPT !.pc = "pairs", !.letter = {}]
      /\ \/ Leaves(letter) /\ UNCHANGED dropped
         \/ dropped' = Lost(letter) /\ UNCHANGED <<told, again>>
      /\ UNCHANGED <<trades, topic, instant, facts, undone, aborts>>

-----------------------------------------------------------------------------
(* The transaction of the instant mail fails after its claim; the process  *)
(* ends, and with it every flush and every instant mail.                   *)

InstantAbort(t) ==
  /\ RowLocked(t) /\ aborts < MaxAborts /\ aborts' = aborts + 1
  /\ instant' = [instant EXCEPT ![t] = "none"]
  /\ undone' = IF instant[t] = "sent" THEN undone \cup {t} ELSE undone
  /\ UNCHANGED <<trades, topic, flush, facts, told, again, dropped>>

EndProcess ==
  /\ aborts < MaxAborts /\ aborts' = aborts + 1
  /\ instant' = [t \in DOMAIN instant |-> "none"]
  /\ undone' = undone \cup {t \in DOMAIN instant : instant[t] = "sent"}
  /\ flush' = Resting
  /\ dropped' = Lost(flush.letter)
  /\ UNCHANGED <<trades, topic, facts, told, again>>

-----------------------------------------------------------------------------
InstantStep(t) == InstantClaim(t) \/ InstantSend(t) \/ InstantCommit(t)
FlushStep   == FlushList \/ FlushPair \/ FlushSend

TradeSteps ==
  \/ \E u \in Sides : CreateTradeRow(u)
  \/ \E t \in DOMAIN trades :
       \/ \E u \in Sides, event \in {"reserved", "declined", "cancelled"} : AnswerTrade(t, u, event)
       \/ \E u \in Sides : SettleRow(t, u) \/ SplitRow(t, u)
       \/ CloseBySystem(t)

MailsNext ==
  \/ TradeSteps
  \/ FlushStep
  \/ \E t \in DOMAIN trades : InstantStep(t) \/ InstantAbort(t)
  \/ EndProcess

MailsSpec == MailsInit /\ [][MailsNext]_mailVars

-----------------------------------------------------------------------------
(* Properties *)

TradeRows   == 1..Len(trades)
Events == {"request", "reserved", "declined", "cancelled"}
Facts  == [row : TradeRows, event : Events, actor : Sides]

TradeRecord ==
  [status : {"pending", "reserved", "declined", "cancelled", "completed"},
   initiator : Sides, actor : Sides \cup {Nobody}, quantity : 1..2,
   settled : SUBSET Sides, marks : SUBSET Markers, root : 1..MaxLetters]

(* The types: every mail queued, under way or sent is about a row, of an   *)
(* event that has a marker and from one of the two members.                *)
MailsTypeOK ==
  /\ trades \in Seq(TradeRecord) /\ topic \in Queues
  /\ Len(trades) <= MaxLetters
  /\ instant \in [1..MaxLetters -> {"none", "start", "claimed", "sent"}]
  /\ flush \in [pc : {"idle", "pairs", "send"}, listed : SUBSET Facts,
                todo : SUBSET Sides, letter : SUBSET Facts]
  /\ facts \subseteq Facts /\ told \subseteq Facts /\ undone \subseteq TradeRows
  /\ dropped \subseteq TradeRows \X Markers /\ aborts \in 0..MaxAborts

(* No mail is sent twice, by the instant path and a flush or by two        *)
(* flushes, unless a rollback took back the claim of one that had left.    *)
EachMailOnce == again \subseteq undone \X {"request"}

(* A mail tells the other member what a member did, also when the trade    *)
(* has moved on between the listing, the claim and the mail.  Nothing is   *)
(* told in the name of a member when the system closed the trade.          *)
MailsAreTrue == \A m \in told : trades[m.row].root = m.row => m \in facts

(* A marker stands for a mail that has left or is about to, or for one     *)
(* that was given up: to a member without mails, by a refusal of the mail  *)
(* server, or by the end of the process.  No claim loses a mail otherwise. *)
MarksAreExplained ==
  \A t \in TradeRows : \A m \in trades[t].marks :
    \E r \in {t, trades[t].root} :
      \/ <<r, m>> \in dropped
      \/ \E l \in told \cup flush.letter : l.row = r /\ Marker(l.event) = m

(* createSettledSplit: no mail is sent about the row of a partial          *)
(* settlement, both halves were announced by the original's mails.         *)
SplitsAreSilent == \A m \in told : trades[m.row].root = m.row
=============================================================================
