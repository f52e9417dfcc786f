---------------------------- MODULE MCAgentUpdate ----------------------------
(* Instances of AgentUpdate for TLC. *)
EXTENDS AgentUpdate, TLC

Symmetry == Permutations(AgentTxns)
=============================================================================
