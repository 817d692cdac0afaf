------------------------------ MODULE MCIMessage -----------------------------
(***************************************************************************)
(* Instances of IMessagePoller for TLC.                                    *)
(***************************************************************************)
EXTENDS IMessagePoller, TLC

Symmetric == Permutations(Listeners)
==============================================================================
