----------------------------- MODULE MessageFeed -----------------------------
(***************************************************************************)
(* What a polling adapter promises of the messages of its source, whoever  *)
(* listens: a message may be delivered more than once, but the position    *)
(* from which the source is read never goes back and never passes over a   *)
(* wanted message that was not delivered.                                  *)
(***************************************************************************)
EXTENDS Naturals

CONSTANT Wanted       \* the messages the adapter is to deliver

VARIABLES arrived,    \* messages 1..arrived are in the source
          delivered,  \* the wanted ones that somebody received
          position    \* messages up to here are not read again

vars == <<arrived, delivered, position>>

Init == arrived = 0 /\ delivered = {} /\ position = 0

Arrive == /\ arrived' = arrived + 1
          /\ UNCHANGED <<delivered, position>>

Deliver(u) == /\ u \in Wanted /\ u <= arrived
              /\ delivered' = delivered \cup {u}
              /\ UNCHANGED <<arrived, position>>

Advance(n) == /\ position < n /\ n <= arrived
              /\ \A u \in Wanted : u <= n => u \in delivered
              /\ position' = n
              /\ UNCHANGED <<arrived, delivered>>

Next == \/ Arrive
        \/ \E u \in Wanted : Deliver(u)
        \/ \E n \in 1..arrived : Advance(n)

Spec == Init /\ [][Next]_vars
==============================================================================
