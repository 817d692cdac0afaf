----------------------------- MODULE AtMostTwice -----------------------------
(***************************************************************************)
(* What a caller of a ResilientClient operation may rely on, with no       *)
(* mention of connections, locks or reconnection.                          *)
(*                                                                         *)
(* A call asks the daemon at most twice, the second time only while it is  *)
(* still running.  The daemon may apply each request at most once, at any  *)
(* time after it was asked, even after the call has given up.  A call that *)
(* reports success had its last request applied; a call that reports       *)
(* failure promises nothing: its requests may have been applied 0, 1 or 2  *)
(* times.                                                                  *)
(***************************************************************************)
EXTENDS Naturals

CONSTANT Calls

VARIABLES phase, asked, applied, outcome

vars == <<phase, asked, applied, outcome>>

Init == /\ phase   = [c \in Calls |-> "idle"]
        /\ asked   = [c \in Calls |-> {}]
        /\ applied = [c \in Calls |-> {}]
        /\ outcome = [c \in Calls |-> "none"]

Begin(c) == /\ phase[c] = "idle"
            /\ phase' = [phase EXCEPT ![c] = "running"]
            /\ UNCHANGED <<asked, applied, outcome>>

Ask(c, r) == /\ phase[c] = "running"
             /\ \A a \in asked[c] : a < r
             /\ asked' = [asked EXCEPT ![c] = @ \cup {r}]
             /\ UNCHANGED <<phase, applied, outcome>>

Apply(c, r) == /\ r \in asked[c] \ applied[c]
               /\ applied' = [applied EXCEPT ![c] = @ \cup {r}]
               /\ UNCHANGED <<phase, asked, outcome>>

\* Some applied request is the last one the call asked for.
LastApplied(c) == \E r \in applied[c] : \A a \in asked[c] : a <= r

Finish(c, o) == /\ phase[c] = "running"
                /\ o = "ok" => LastApplied(c)
                /\ phase'   = [phase EXCEPT ![c] = "finished"]
                /\ outcome' = [outcome EXCEPT ![c] = o]
                /\ UNCHANGED <<asked, applied>>

Next == \E c \in Calls :
          \/ Begin(c)
          \/ \E r \in {1, 2} : Ask(c, r) \/ Apply(c, r)
          \/ \E o \in {"ok", "failed"} : Finish(c, o)

Spec == Init /\ [][Next]_vars
==============================================================================
