------------------------------- MODULE MCAgent -------------------------------
(***************************************************************************)
(* Instances of AgentSession for TLC.                                      *)
(***************************************************************************)
EXTENDS AgentSession, TLC

Symmetric == Permutations(Ops)
==============================================================================
