----------------------------- MODULE MCTradeTxn -----------------------------
(* Instances of TradeTxn for TLC: jobs and trades of one giver. *)
EXTENDS TradeTxn, TLC
CONSTANTS p1, p2, p3, c1, c2, c3, c4, club

Accept(t)  == [kind |-> "accept", trade |-> t]
Offer(t)   == [kind |-> "offer", trade |-> t]
Cancel(t)  == [kind |-> "cancel", trade |-> t]
Dispose(S) == [kind |-> "dispose", copies |-> S]
Move(S)    == [kind |-> "move", copies |-> S]
Add(S)     == [kind |-> "add", copies |-> S]
Lend(n)    == [kind |-> "lend", quantity |-> n]
Reset      == [kind |-> "reset"]

InOrder == [g \in Groups |-> [c \in Copies |-> CHOOSE n \in 1..4 : <<c1, c2, c3, c4>>[n] = c]]

Row(g, n, i) == [group |-> g, quantity |-> n, initiator |-> i]

(* Two requests for one and for two of the giver's copies, and three offers. *)
TradesOfGiver == <<Row(club, 1, "receiver"), Row(club, 2, "receiver"),
                   Row(club, 1, "giver"), Row(club, 2, "giver"), Row(club, 1, "giver")>>

(* Three transactions take their jobs from a list, a job as often as they  *)
(* like; the transactions being interchangeable, in the list's order.  All *)
(* copies the giver has at home are offered.                               *)
ThreeOf(jobs, home) ==
  {[jobs    |-> p1 :> jobs[i] @@ p2 :> jobs[j] @@ p3 :> jobs[k],
    home    |-> home,
    offered |-> [g \in Groups |-> home]] :
     <<i, j, k>> \in {s \in (DOMAIN jobs) \X (DOMAIN jobs) \X (DOMAIN jobs) :
                       s[1] <= s[2] /\ s[2] <= s[3]}}

PinJobs    == <<Accept(1), Accept(2), Dispose({c1}), Lend(1), Cancel(1), Move({c1}), Reset>>
SweepJobs  == <<Accept(1), Accept(2), Dispose({c1, c2}), Cancel(2), Add({c4}),
                Offer(3), Offer(4), Offer(5)>>
LockStarts == ThreeOf(PinJobs, {c1, c2}) \cup ThreeOf(SweepJobs, {c1, c2, c3})
MoveStarts == ThreeOf(<<Accept(1), Move({c1})>>, {c1, c2})
ResetStarts == ThreeOf(<<Accept(1), Add({c4}), Reset>>, {c1, c2})

(* What the claims about the pending trades take of the starts holds.      *)
ASSUME StartsAssumption == StartsFillable /\ StartsFit
=============================================================================
