-------------------------- MODULE MCServerMonitor --------------------------
(***************************************************************************)
(* ServerMonitor for TLC. The round trip monitor, the workers and the      *)
(* subscribers hardly meet one another, so a behaviour has one kind of     *)
(* them busy beside the heartbeats and Disconnect; focus says which:       *)
(*   errors    one worker that meets a network error                       *)
(*   pair      two workers whose errors clear the pool, no Disconnect      *)
(*   versions  one worker, any error, two topology versions, no Disconnect *)
(*   rtt       the round trip monitor, with heartbeats that succeed        *)
(*   subs      the subscribers, of a server that streams                   *)
(* A round trip monitor that is not busy is scheduled once its context is  *)
(* cancelled.                                                              *)
(***************************************************************************)
EXTENDS ServerMonitor, TLC

CONSTANTS w1, w2
VARIABLE focus

Busy ==
  CASE focus \in {"errors", "versions"} -> {w1}
    [] focus = "pair" -> {w1, w2}
    [] OTHER -> {}
Kinds ==
  CASE focus = "errors" -> {"network"}
    [] focus = "pair" -> {"network", "shuttingDown"}
    [] OTHER -> OpFailures
Scheduled ==
  /\ \A w \in Workers : fail'[w].kind \in Kinds \cup {"none"}
  /\ focus # "rtt" /\ ~rttCtx => pc'["rtt"] = pc["rtt"]
  /\ focus = "rtt" /\ ~global => pc'["update"] # "failed"
  /\ \A w \in Workers \ Busy : pc'[w] = pc[w]
  /\ focus \in {"pair", "versions"} => pc'["disconnect"] = pc["disconnect"]
  /\ focus # "subs" => subs' = subs
mcVars == <<vars, focus>>

MCInit ==
  /\ Init
  /\ \/ focus = "versions" /\ replies = {1, 2}
     \/ focus = "subs" /\ replies = {1}
     \/ focus \in {"errors", "pair", "rtt"} /\ replies = {0}
MCNext == Next /\ Scheduled /\ UNCHANGED focus

(* The fairness of ServerMonitor, of the steps that are scheduled. *)
MCFairness ==
  /\ WF_mcVars(Update /\ Scheduled /\ UNCHANGED focus) /\ WF_mcVars(Disconnect /\ UNCHANGED focus)
  /\ WF_mcVars(Rtt /\ Scheduled /\ UNCHANGED focus)
  /\ \A w \in Workers : WF_mcVars(Report(w) /\ UNCHANGED focus)
MCSpec == MCInit /\ [][MCNext]_mcVars /\ MCFairness
=============================================================================
