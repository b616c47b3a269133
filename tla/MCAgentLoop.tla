---------------------------- MODULE MCAgentLoop ----------------------------
(* An instance of AgentLoop for TLC: a training prompt of a mixed group, one with a  *)
(* __rollout_n__ that the group size does not match, and a greedy prompt of two (a   *)
(* validation prompt takes the same branch).                                         *)
EXTENDS AgentLoop, TLC

CONSTANTS train, override, greedy

MCPrompts == {train, override, greedy}
MCMode == (train :> "train") @@ (override :> "train") @@ (greedy :> "greedy")
MCAsked == (train :> 3) @@ (override :> 1) @@ (greedy :> 2)
=============================================================================
