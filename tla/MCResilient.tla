----------------------------- MODULE MCResilient -----------------------------
(***************************************************************************)
(* Instances of ResilientClient for TLC.                                   *)
(***************************************************************************)
EXTENDS ResilientClient
==============================================================================
