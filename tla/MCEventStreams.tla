--------------------------- MODULE MCEventStreams ---------------------------
(***************************************************************************)
(* Instances of EventStreams for TLC: one stream is a subscription, the    *)
(* others may be anything; the agent's events have two session ids.        *)
(***************************************************************************)
EXTENDS EventStreams

MCKinds ==
  {k \in [Streams -> {"subscription", "chat", "call"}] :
     k[CHOOSE s \in Streams : TRUE] = "subscription"}

MCChatEvents == [type : {"TEXT", "DONE", "ERROR"}, session : {NoSession, "a", "b"}]
==============================================================================
