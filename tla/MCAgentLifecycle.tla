-------------------------- MODULE MCAgentLifecycle --------------------------
(***************************************************************************)
(* AgentLifecycle for TLC: the symmetry of the runs in which every          *)
(* environment is named by agent_init and none is broken or deleted.       *)
(***************************************************************************)
EXTENDS AgentLifecycle, TLC

Symmetry == Permutations(Envs) \cup Permutations(Inits)
=============================================================================
