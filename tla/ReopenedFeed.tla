----------------------------- MODULE ReopenedFeed ----------------------------
(***************************************************************************)
(* What is left of MessageFeed when the source may be opened again and may *)
(* fail to give a message: each opening takes the position to the end of   *)
(* what is there, or, if the end cannot be told, back to the start.        *)
(* Between openings the position only moves forward, and never passes over *)
(* a wanted message that arrived after the latest opening, unless it was   *)
(* delivered or the source has failed to give it.                          *)
(***************************************************************************)
EXTENDS MessageFeed

VARIABLES base,       \* what was in the source at the latest opening
          lost        \* messages the source has failed to give

reopenedVars == <<vars, base, lost>>

ReopenedInit == Init /\ base = 0 /\ lost = {}

Reopen == /\ base' = arrived
          /\ position' \in {0, arrived}
          /\ UNCHANGED <<arrived, delivered, lost>>

Lose(U) == /\ lost' = lost \cup U
           /\ UNCHANGED <<arrived, delivered, position, base>>

AdvanceFromBase(n) ==
  /\ position < n /\ n <= arrived
  /\ \A u \in Wanted : base < u /\ u <= n => u \in delivered \cup lost
  /\ position' = n
  /\ UNCHANGED <<arrived, delivered, base, lost>>

ReopenedNext ==
  \/ Reopen
  \/ Arrive /\ UNCHANGED <<base, lost>>
  \/ \E u \in Wanted : Deliver(u) /\ UNCHANGED <<base, lost>>
  \/ \E U \in SUBSET {u \in Wanted : u <= arrived} : Lose(U)
  \/ \E n \in 1..arrived : AdvanceFromBase(n)

ReopenedSpec == ReopenedInit /\ [][ReopenedNext]_reopenedVars
==============================================================================
