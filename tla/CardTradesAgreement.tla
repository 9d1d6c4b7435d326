------------------------- MODULE CardTradesAgreement -------------------------
(* The rows of CardTrades, seen as the agreements of TradeAgreement: the   *)
(* rows split off one created trade are portions of one agreement.         *)
EXTENDS CardTrades

Withdrawn == {"declined", "cancelled", "expired"}

(* The portions that still count: a row that was called off before a side  *)
(* settled it is no longer part of the agreement.                          *)
Portions(a) == {t \in Family(a) : status[t] \in Withdrawn => settled[t] # {}}

HasRow(a, st) == \E t \in Family(a) : status[t] = st

PhaseOf(a) ==
  IF Family(a) = {} THEN "none"
  ELSE IF HasRow(a, "pending") THEN "asked"
  ELSE IF HasRow(a, "reserved") THEN "promised"
  ELSE IF \E t \in Portions(a) : status[t] \in Withdrawn THEN "void"
  ELSE "over"

Whole(a)  == Sum(quantity, Portions(a))
DoneBy(a) == [r \in Roles |-> Sum(quantity, {t \in Portions(a) : r \in settled[t]})]
Intact(a) == Family(a) # {} /\ RequireLive(a)

Agreement == INSTANCE TradeAgreement WITH
  Agreements <- TradeIds,
  Sides  <- Roles,
  phase  <- [a \in TradeIds |-> PhaseOf(a)],
  amount <- [a \in TradeIds |-> Whole(a)],
  done   <- [a \in TradeIds |-> DoneBy(a)],
  intact <- [a \in TradeIds |-> Intact(a)]

(* Splits, partial settlements, sweeps, cancellations and departures keep  *)
(* the promise of one agreement: no side settles more than was agreed or   *)
(* loses what it has settled, and the trade ends even, whatever the rows.  *)
ImplementsAgreement == Agreement!Spec
=============================================================================
