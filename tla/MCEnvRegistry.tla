---------------------------- MODULE MCEnvRegistry ----------------------------
(***************************************************************************)
(* EnvRegistry for TLC: the list that the first agent_init names.          *)
(***************************************************************************)
EXTENDS EnvRegistry

CONSTANTS e1, e2, e3

ThreeNamed == <<e1, e2, e3>>
=============================================================================
