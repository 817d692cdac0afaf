----------------------------- MODULE EventStreams -----------------------------
(***************************************************************************)
(* The readers of the SDK's three server streams: the goroutine that       *)
(* AgentSession.Subscribe starts (client/agent.go), with the callback      *)
(* OnEvent that brings the HotBlockCache up to date                        *)
(* (client/hotblock_cache.go); the goroutine of ChatClient.ChatStream and  *)
(* the loop of ChatClient.Chat (client/chat_client.go).                    *)
(*                                                                         *)
(* The daemon numbers the versions of its memory and announces each to     *)
(* every subscription, in order; the callback is the program's: it reads   *)
(* the hot block, which is a request of its own, and updates the cache     *)
(* when the request succeeds.                                              *)
(*                                                                         *)
(* Left out: opening the streams (for Subscribe see AgentSession); the     *)
(* fields of chat events that are only copied; the cache's counts and      *)
(* time, which change with its content under one lock.  A context that     *)
(* ends is a stream that fails.                                            *)
(***************************************************************************)
EXTENDS Naturals, Sequences, SequencesExt

CONSTANTS Streams,
          Kinds,        \* which streams may be what
          SubCap,       \* capacity of a subscription's channel: 50 in the code
          ChatCap,      \* capacity of ChatStream's channel: 64 in the code
          ChatEvents,   \* what the agent may answer: [type, session]
          MaxVersion,   \* bound: changes of the daemon's memory
          MaxAnswer,    \* bound: events of a chat answer
          NoSession     \* the empty session id

ASSUME StreamsAssumption ==
  /\ Kinds \subseteq [Streams -> {"subscription", "chat", "call"}]
  /\ {SubCap, ChatCap} \subseteq Nat \ {0} /\ {MaxVersion, MaxAnswer} \subseteq Nat

VARIABLES
  kind,       \* of each stream: Subscribe's, ChatStream's or Chat's
  version,    \* the daemon's memory
  cache,      \* the version of the HotBlockCache
  pc,         \* where each reader is
  got,        \* the events it received
  ended,      \* how its stream ended
  block,      \* the hot block that its callback has just read
  out,        \* the events put in its channel
  unread,     \* how many of them are still there
  reply,      \* what Chat returned or has collected
  missed      \* history: the events whose callback brought nothing

vars == <<kind, version, cache, pc, got, ended, block, out, unread, reply, missed>>

\* What ChatStream makes of a stream that fails; Chat returns an error.
StreamError == [type |-> "ERROR", session |-> NoSession]

Cap(s) == IF kind[s] = "subscription" THEN SubCap ELSE ChatCap

TypeOK ==
  /\ kind \in Kinds
  /\ version \in 0..MaxVersion /\ cache \in 0..version
  /\ pc \in [Streams -> {"recv", "callback", "update", "forward", "lastwords", "closed"}]
  /\ ended \in [Streams -> {"no", "eof", "error"}]
  /\ block \in [Streams -> 0..version]
  /\ missed \in [Streams -> SUBSET (1..version)]
  /\ \A s \in Streams :
       /\ unread[s] <= Cap(s) /\ unread[s] <= Len(out[s])
       /\ kind[s] = "subscription" => got[s] \in Seq(1..version)
       /\ kind[s] # "subscription" => got[s] \in Seq(ChatEvents)

------------------------------------------------------------------------------
Init ==
  /\ kind \in Kinds
  /\ version = 0 /\ cache = 0
  /\ pc     = [s \in Streams |-> "recv"]
  /\ got    = [s \in Streams |-> <<>>]
  /\ ended  = [s \in Streams |-> "no"]
  /\ block  = [s \in Streams |-> 0]
  /\ out    = [s \in Streams |-> <<>>]
  /\ unread = [s \in Streams |-> 0]
  /\ reply  = [s \in Streams |-> [text |-> <<>>, session |-> NoSession, err |-> FALSE]]
  /\ missed = [s \in Streams |-> {}]

Goto(s, place) == pc' = [pc EXCEPT ![s] = place]
Receive(s, e)  == got' = [got EXCEPT ![s] = Append(@, e)]

\* The daemon's memory changes.
Change ==
  /\ version < MaxVersion
  /\ version' = version + 1
  /\ UNCHANGED <<kind, cache, pc, got, ended, block, out, unread, reply, missed>>

\* The reader of a channel takes an event.
Take(s) ==
  /\ unread[s] > 0
  /\ unread' = [unread EXCEPT ![s] = @ - 1]
  /\ UNCHANGED <<kind, version, cache, pc, got, ended, block, out, reply, missed>>

\* stream.Recv returns an error: io.EOF or another.
StreamEnds(s) ==
  /\ pc[s] = "recv"
  /\ \E how \in {"eof", "error"} :
       /\ ended' = [ended EXCEPT ![s] = how]
       /\ Goto(s, IF kind[s] = "chat" /\ how = "error" THEN "lastwords" ELSE "closed")
       /\ reply' = [reply EXCEPT ![s].err = (kind[s] = "call" /\ how = "error")]
  /\ UNCHANGED <<kind, version, cache, got, block, out, unread, missed>>

Enqueue(s, e) ==
  /\ out'    = [out EXCEPT ![s] = Append(@, e)]
  /\ unread' = [unread EXCEPT ![s] = @ + 1]

------------------------------------------------------------------------------
(* Subscribe's goroutine and its callback.                                 *)

\* Mutated: the callback is left out when there is no room for the event.
EventRecvIfRoom(s) ==
  /\ pc[s] = "recv" /\ kind[s] = "subscription" /\ Len(got[s]) < version
  /\ Receive(s, Len(got[s]) + 1)
  /\ Goto(s, IF unread[s] < SubCap THEN "callback" ELSE "forward")
  /\ UNCHANGED <<kind, version, cache, ended, block, out, unread, reply, missed>>

EventRecv(s) ==
  /\ pc[s] = "recv" /\ kind[s] = "subscription" /\ Len(got[s]) < version
  /\ Receive(s, Len(got[s]) + 1)
  /\ Goto(s, "callback")
  /\ UNCHANGED <<kind, version, cache, ended, block, out, unread, reply, missed>>

CallbackFetches(s) ==
  /\ pc[s] = "callback"
  /\ block' = [block EXCEPT ![s] = version]
  /\ Goto(s, "update")
  /\ UNCHANGED <<kind, version, cache, got, ended, out, unread, reply, missed>>

\* GetHotBlock fails, or the session has no OnEvent: the cache stays.
CallbackSkips(s) ==
  /\ pc[s] = "callback"
  /\ missed' = [missed EXCEPT ![s] = @ \cup {Len(got[s])}]
  /\ Goto(s, "forward")
  /\ UNCHANGED <<kind, version, cache, got, ended, block, out, unread, reply>>

\* HotBlockCache.Update: whatever is there is replaced.
CacheUpdate(s) ==
  /\ pc[s] = "update"
  /\ cache' = block[s]
  /\ block' = [block EXCEPT ![s] = 0]
  /\ Goto(s, "forward")
  /\ UNCHANGED <<kind, version, got, ended, out, unread, reply, missed>>

\* Mutated: the send waits for room.
EventForwardBlocks(s) ==
  /\ pc[s] = "forward" /\ kind[s] = "subscription" /\ unread[s] < SubCap
  /\ Enqueue(s, Last(got[s]))
  /\ Goto(s, "recv")
  /\ UNCHANGED <<kind, version, cache, got, ended, block, reply, missed>>

\* Mutated: the capacity is not looked at.
EventForwardAlways(s) ==
  /\ pc[s] = "forward" /\ kind[s] = "subscription"
  /\ Enqueue(s, Last(got[s]))
  /\ Goto(s, "recv")
  /\ UNCHANGED <<kind, version, cache, got, ended, block, reply, missed>>

\* The event is dropped when there is no room.
EventForward(s) ==
  /\ pc[s] = "forward" /\ kind[s] = "subscription"
  /\ \/ unread[s] < SubCap /\ Enqueue(s, Last(got[s]))
     \/ unread[s] = SubCap /\ UNCHANGED <<out, unread>>
  /\ Goto(s, "recv")
  /\ UNCHANGED <<kind, version, cache, got, ended, block, reply, missed>>

------------------------------------------------------------------------------
(* ChatStream's goroutine.  Its sends look neither at the context nor at   *)
(* anything else.                                                          *)

ChatRecv(s) ==
  /\ pc[s] = "recv" /\ kind[s] = "chat" /\ Len(got[s]) < MaxAnswer
  /\ \E e \in ChatEvents : Receive(s, e)
  /\ Goto(s, "forward")
  /\ UNCHANGED <<kind, version, cache, ended, block, out, unread, reply, missed>>

\* Mutated: an event that finds no room is dropped.
ChatForwardDrops(s) ==
  /\ pc[s] = "forward" /\ kind[s] = "chat"
  /\ \/ unread[s] < ChatCap /\ Enqueue(s, Last(got[s]))
     \/ unread[s] = ChatCap /\ UNCHANGED <<out, unread>>
  /\ Goto(s, "recv")
  /\ UNCHANGED <<kind, version, cache, got, ended, block, reply, missed>>

ChatForward(s) ==
  /\ pc[s] = "forward" /\ kind[s] = "chat" /\ unread[s] < ChatCap
  /\ Enqueue(s, Last(got[s]))
  /\ Goto(s, "recv")
  /\ UNCHANGED <<kind, version, cache, got, ended, block, reply, missed>>

ChatFails(s) ==
  /\ pc[s] = "lastwords" /\ unread[s] < ChatCap
  /\ Enqueue(s, StreamError)
  /\ Goto(s, "closed")
  /\ UNCHANGED <<kind, version, cache, got, ended, block, reply, missed>>

------------------------------------------------------------------------------
(* Chat.                                                                   *)

\* Mutated: the last session id is kept.
CollectLast(r, e) ==
  [text    |-> IF e.type = "TEXT" THEN Append(r.text, e) ELSE r.text,
   session |-> IF e.session = NoSession THEN r.session ELSE e.session,
   err     |-> e.type = "ERROR"]

\* What an event adds to the reply.
Collect(r, e) ==
  [text    |-> IF e.type = "TEXT" THEN Append(r.text, e) ELSE r.text,
   session |-> IF r.session = NoSession THEN e.session ELSE r.session,
   err     |-> e.type = "ERROR"]

CallRecv(s) ==
  /\ pc[s] = "recv" /\ kind[s] = "call" /\ Len(got[s]) < MaxAnswer
  /\ \E e \in ChatEvents :
       /\ Receive(s, e)
       /\ reply' = [reply EXCEPT ![s] = Collect(@, e)]
       /\ Goto(s, IF e.type = "ERROR" THEN "closed" ELSE "recv")
  /\ UNCHANGED <<kind, version, cache, ended, block, out, unread, missed>>

------------------------------------------------------------------------------
\* The steps a reader takes by itself once an event or the end has come.
Continue(s) ==
  \/ CallbackFetches(s) \/ CallbackSkips(s) \/ CacheUpdate(s) \/ EventForward(s)
  \/ ChatForward(s) \/ ChatFails(s)

\* Nothing more happens when no reader has anything to do.
Terminated ==
  /\ \A s \in Streams : pc[s] = "closed" \/ (kind[s] = "chat" /\ unread[s] = ChatCap)
  /\ UNCHANGED vars

Next ==
  \/ Change \/ Terminated
  \/ \E s \in Streams :
       Take(s) \/ StreamEnds(s) \/ EventRecv(s) \/ ChatRecv(s) \/ CallRecv(s) \/ Continue(s)

Spec == Init /\ [][Next]_vars

\* Goroutines run and requests are answered.  Nothing is assumed of the
\* readers of the channels, nor that a stream ever ends.
FairSpec == Spec /\ \A s \in Streams : WF_vars(Continue(s))

------------------------------------------------------------------------------
(* Properties.                                                             *)

Whole(s) == IF ended[s] = "error" THEN Append(got[s], StreamError) ELSE got[s]

Increasing(q) == \A i, j \in DOMAIN q : i < j => q[i] < q[j]

\* ChatStream's channel carries the agent's events in order, none missing and
\* none twice, and is closed after the last, with an error event of its own
\* when the stream failed.  A subscription's is in order.
StreamsInOrder ==
  \A s \in Streams :
    /\ kind[s] = "chat" =>
         /\ IsPrefix(out[s], Whole(s))
         /\ pc[s] = "recv" => out[s] = got[s]
         /\ pc[s] = "closed" => out[s] = Whole(s)
    /\ kind[s] = "subscription" => Increasing(out[s]) /\ ToSet(out[s]) \subseteq ToSet(got[s])

Subscriptions == {s \in Streams : kind[s] = "subscription"}

\* The events that the cache is older than, but for those whose callback
\* brought nothing.
Behind(s) == {v \in 1..Len(got[s]) : v \notin missed[s] /\ cache < v}

\* With one subscription the cache has caught up with every event whose
\* callback brought a block, although the channel may have dropped the event
\* and callbacks before or after it may have failed: only the event whose
\* callback is under way may be ahead of it.
CacheCatchesUp ==
  \A s \in Subscriptions :
    Subscriptions = {s} =>
      Behind(s) \subseteq {v \in {Len(got[s])} : pc[s] \in {"callback", "update"}}

TextPlaces(q) == {i \in DOMAIN q : q[i].type = "TEXT"}

\* texts are the TEXT events of q, each once and in their order.
CarriesTexts(texts, q) ==
  \E f \in [DOMAIN texts -> TextPlaces(q)] :
    /\ Increasing(f) /\ Range(f) = TextPlaces(q)
    /\ \A i \in DOMAIN texts : texts[i] = q[f[i]]

\* session is the first session id in q, if there is one.
CarriesSession(session, q) ==
  \/ session = NoSession /\ \A i \in DOMAIN q : q[i].session = NoSession
  \/ \E i \in DOMAIN q :
       /\ session = q[i].session /\ session # NoSession
       /\ \A j \in DOMAIN q : j < i => q[j].session = NoSession

\* What Chat returns is what a reader of ChatStream would make of the same
\* events: the texts, the first session id, an error when an error event or
\* the stream ended the answer.
ChatAgrees ==
  \A s \in Streams :
    kind[s] = "call" /\ pc[s] = "closed" =>
      /\ CarriesTexts(reply[s].text, got[s])
      /\ CarriesSession(reply[s].session, got[s])
      /\ reply[s].err <=> ended[s] = "error" \/ \E i \in DOMAIN got[s] : got[s][i].type = "ERROR"

\* Every reader comes back to Recv, and so learns of the end of its stream,
\* until it is over: a subscription's although nobody may read its channel,
\* ChatStream's if its channel is read again and again.
ReadersGoOn ==
  /\ []<>(\A s \in Subscriptions : pc[s] \in {"recv", "closed"})
  /\ []<>(\A s \in Streams : unread[s] = 0)
       => []<>(\A s \in Streams : pc[s] \in {"recv", "closed"})
==============================================================================
