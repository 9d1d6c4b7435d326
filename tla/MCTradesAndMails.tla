-------------------------- MODULE MCTradesAndMails --------------------------
(***************************************************************************)
(* Trades that compete for one giver's supply, and the mails about trades, *)
(* for TLC.  TradeMails has the trade rows it needs of its own, so that    *)
(* the two share no state: a behaviour is about one of them while the      *)
(* other rests as it began.                                                *)
(***************************************************************************)
EXTENDS MCCardTrades, TradeMails

VARIABLE part    \* what the behaviour is about

bothVars == <<part, vars, mailVars>>

BothInit ==
  /\ part \in {"trades", "mails"} /\ Init /\ MailsInit
  /\ part = "trades" => topic = "status"

BothNext ==
  \/ part = "trades" /\ Next /\ UNCHANGED <<part, mailVars>>
  \/ part = "mails" /\ MailsNext /\ UNCHANGED <<part, vars>>

BothSpec == BothInit /\ [][BothNext]_bothVars
=============================================================================
