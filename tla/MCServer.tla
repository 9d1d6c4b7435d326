------------------------------ MODULE MCServer ------------------------------
(***************************************************************************)
(* Two parts of the API process for TLC: the render pool and the           *)
(* background jobs.  They share nothing but the event loop, so that a      *)
(* behaviour is about one of them and the other rests in its initial       *)
(* state, in which no fair action of it is enabled.                        *)
(***************************************************************************)
EXTENDS RenderPool, JobRuns

VARIABLE part    \* what the behaviour is about

serverVars == <<part, vars, runsVars>>

ServerInit ==
  /\ part \in {"pool", "jobs"} /\ Init /\ RunsInit
  /\ part = "pool" => kind = "images"

ServerNext ==
  \/ part = "pool" /\ Next /\ UNCHANGED <<part, runsVars>>
  \/ part = "jobs" /\ RunsNext /\ UNCHANGED <<part, vars>>

ServerSpec == ServerInit /\ [][ServerNext]_serverVars /\ Fairness /\ RunsFairness
=============================================================================
