----------------------------- MODULE MCOutbound -----------------------------
(* Every text of up to Full bytes, and the texts of Long bytes with at most *)
(* one newline.                                                             *)
EXTENDS Outbound, FiniteSets

CONSTANTS Full, Long

MCTexts ==
  UNION {[len : {n}, newlines : SUBSET (1..n)] : n \in 0..Full}
    \cup {t \in [len : {Long}, newlines : SUBSET (1..Long)] : Cardinality(t.newlines) <= 1}
==============================================================================
