-------------------------- MODULE EventStreamsProofs --------------------------
(***************************************************************************)
(* Proofs about the readers of the event streams, for any streams, kinds,  *)
(* capacities and numbers of events.                                       *)
(*                                                                         *)
(* The properties speak of a stream's channel and cache at certain places  *)
(* of its reader; Local says what holds of them at every place.            *)
(***************************************************************************)
EXTENDS EventStreams, SequenceTheorems, TLAPS

Events == (1..MaxVersion) \cup ChatEvents \cup {StreamError}

\* What TypeOK, which is for TLC to evaluate, leaves out.
Shape ==
  /\ got \in [Streams -> Seq(Events)]
  /\ out \in [Streams -> Seq(Events)]
  /\ unread \in [Streams -> Nat]

\* A subscription's events are those of the versions, one after the other;
\* its channel has some of them, and not yet the one in hand, for which the
\* callback has read a block at least as new.
SubscriptionInv(s) ==
  /\ pc[s] \in {"recv", "callback", "update", "forward", "closed"}
  /\ Len(got[s]) <= version
  /\ \A i \in 1..Len(got[s]) : got[s][i] = i
  /\ \A i, j \in 1..Len(out[s]) : i < j => out[s][i] < out[s][j]
  /\ \A i \in 1..Len(out[s]) : out[s][i] \in 1..Len(got[s])
  /\ pc[s] \in {"callback", "update", "forward"} =>
       Len(got[s]) > 0 /\ \A i \in 1..Len(out[s]) : out[s][i] < Len(got[s])
  /\ pc[s] = "update" => Len(got[s]) <= block[s]

ChatInv(s) ==
  /\ pc[s] \in {"recv", "forward", "lastwords", "closed"}
  /\ pc[s] = "recv" => out[s] = got[s] /\ ended[s] = "no"
  /\ pc[s] = "forward" =>
       Len(got[s]) > 0 /\ got[s] = Append(out[s], Last(got[s])) /\ ended[s] = "no"
  /\ pc[s] = "lastwords" => out[s] = got[s] /\ ended[s] = "error"
  /\ pc[s] = "closed" => out[s] = Whole(s)

Local(s) ==
  /\ kind[s] = "subscription" => SubscriptionInv(s)
  /\ kind[s] = "chat" => ChatInv(s)
  /\ kind[s] = "call" => pc[s] \in {"recv", "closed"}

Inv == TypeOK /\ Shape /\ (\A s \in Streams : Local(s)) /\ CacheCatchesUp

LEMMA BoundsTypes ==
  SubCap \in Nat \ {0} /\ ChatCap \in Nat \ {0} /\ MaxVersion \in Nat /\ MaxAnswer \in Nat
  BY StreamsAssumption

LEMMA KindTypes ==
  ASSUME TypeOK, NEW s \in Streams
  PROVE  kind[s] \in {"subscription", "chat", "call"}
  BY StreamsAssumption DEF TypeOK

LEMMA InvInit == Init => Inv
<1> SUFFICES ASSUME Init PROVE Inv
  OBVIOUS
<1> USE BoundsTypes
<1>1. /\ kind \in Kinds /\ version = 0 /\ cache = 0
      /\ pc = [s \in Streams |-> "recv"] /\ got = [s \in Streams |-> <<>>]
      /\ ended = [s \in Streams |-> "no"] /\ block = [s \in Streams |-> 0]
      /\ out = [s \in Streams |-> <<>>] /\ unread = [s \in Streams |-> 0]
      /\ missed = [s \in Streams |-> {}]
  BY DEF Init
<1>2. TypeOK
  <2>1. \A s \in Streams :
          /\ unread[s] <= Cap(s) /\ unread[s] <= Len(out[s])
          /\ got[s] \in Seq(1..version) /\ got[s] \in Seq(ChatEvents)
    BY <1>1 DEF Cap
  <2> QED
    BY <1>1, <2>1 DEF TypeOK
<1>3. Shape
  BY <1>1 DEF Shape
<1>4. ASSUME NEW s \in Streams PROVE Local(s)
  <2>1. SubscriptionInv(s)
    BY <1>1 DEF SubscriptionInv
  <2>2. ChatInv(s)
    BY <1>1 DEF ChatInv
  <2> QED
    BY <1>1, <2>1, <2>2 DEF Local
<1>5. CacheCatchesUp
  <2>1. \A s \in Streams : Behind(s) = {}
    BY <1>1 DEF Behind
  <2> QED
    BY <2>1, Zenon DEF CacheCatchesUp, Subscriptions
<1> QED
  BY <1>2, <1>3, <1>4, <1>5 DEF Inv

------------------------------------------------------------------------------
(* What an action changes.                                                 *)

LEMMA AppendElements ==
  ASSUME NEW S, NEW q \in Seq(S), NEW e \in S
  PROVE  /\ Append(q, e) \in Seq(S) /\ Len(q) \in Nat /\ Len(Append(q, e)) = Len(q) + 1
         /\ \A i \in 1..Len(q) : Append(q, e)[i] = q[i]
         /\ Append(q, e)[Len(q) + 1] = e
  BY AppendProperties, LenProperties

LEMMA EnqueueEffect ==
  ASSUME Shape, NEW s \in Streams, NEW e \in Events, Enqueue(s, e)
  PROVE  /\ out' \in [Streams -> Seq(Events)] /\ unread' \in [Streams -> Nat]
         /\ out'[s] = Append(out[s], e) /\ unread'[s] = unread[s] + 1
         /\ \A t \in Streams \ {s} : out'[t] = out[t] /\ unread'[t] = unread[t]
<1>1. out \in [Streams -> Seq(Events)] /\ unread \in [Streams -> Nat]
  BY DEF Shape
<1>2. Append(out[s], e) \in Seq(Events)
  BY <1>1, AppendElements
<1> QED
  BY <1>1, <1>2 DEF Enqueue

LEMMA ReceiveEffect ==
  ASSUME Shape, NEW s \in Streams, NEW e \in Events, Receive(s, e)
  PROVE  /\ got' \in [Streams -> Seq(Events)] /\ got'[s] = Append(got[s], e)
         /\ \A t \in Streams \ {s} : got'[t] = got[t]
<1>1. got \in [Streams -> Seq(Events)]
  BY DEF Shape
<1>2. Append(got[s], e) \in Seq(Events)
  BY <1>1, AppendElements
<1> QED
  BY <1>1, <1>2 DEF Receive

\* A channel grows with an event in hand.
LEMMA LastIsEvent ==
  ASSUME Shape, NEW s \in Streams, Len(got[s]) > 0
  PROVE  Last(got[s]) \in Events /\ Last(got[s]) = got[s][Len(got[s])]
<1>1. got[s] \in Seq(Events)
  BY DEF Shape
<1>2. Len(got[s]) \in 1..Len(got[s])
  BY <1>1, LenProperties
<1>3. got[s][Len(got[s])] \in Events
  BY <1>1, <1>2, ElementOfSeq
<1> QED
  BY <1>3 DEF Last

\* A stream that a step leaves alone keeps its part of the invariant.
LEMMA LocalKept ==
  ASSUME Inv, NEW t \in Streams, kind' = kind, version' \in Nat, version <= version',
         pc'[t] = pc[t], got'[t] = got[t], ended'[t] = ended[t],
         block'[t] = block[t], out'[t] = out[t]
  PROVE  Local(t)'
<1>1. Local(t) /\ version \in Nat /\ Len(got[t]) \in Nat
  BY LenProperties DEF Inv, TypeOK, Shape
<1>2. SubscriptionInv(t) => SubscriptionInv(t)'
  BY <1>1 DEF SubscriptionInv
<1>3. ChatInv(t) => ChatInv(t)'
  BY DEF ChatInv, Whole
<1> QED
  BY <1>1, <1>2, <1>3 DEF Local

\* A step that neither moves the cache, receives an event nor takes a reader
\* out of its callback leaves the cache up to date.
LEMMA CacheKept ==
  ASSUME CacheCatchesUp, UNCHANGED <<kind, cache, missed>>,
         \A t \in Subscriptions :
           /\ got'[t] = got[t]
           /\ pc[t] \in {"callback", "update"} => pc'[t] \in {"callback", "update"}
  PROVE  CacheCatchesUp'
<1>1. Subscriptions' = Subscriptions
  BY DEF Subscriptions
<1>2. \A t \in Subscriptions : Behind(t)' = Behind(t)
  BY DEF Behind
<1> QED
  BY <1>1, <1>2 DEF CacheCatchesUp

\* Nor is it behind when the last event is the only one ahead of it, and its
\* callback is under way.
LEMMA OneAhead ==
  ASSUME NEW s \in Streams, kind' = kind, kind[s] = "subscription",
         \/ Behind(s)' = {}
         \/ Behind(s)' \subseteq {Len(got'[s])} /\ pc'[s] \in {"callback", "update"}
  PROVE  CacheCatchesUp'
<1>1. s \in Subscriptions /\ Subscriptions' = Subscriptions
  BY DEF Subscriptions
<1>2. ASSUME NEW t \in Subscriptions, Subscriptions = {t} PROVE t = s
  BY <1>1, <1>2
<1> QED
  BY <1>1, <1>2 DEF CacheCatchesUp

\* What remains to be shown of a step of one reader.
LEMMA InvKept ==
  ASSUME Inv, NEW s \in Streams,
         kind' = kind, version' = version, cache' \in 0..version, Shape',
         pc' \in [Streams -> {"recv", "callback", "update", "forward", "lastwords", "closed"}],
         ended' \in [Streams -> {"no", "eof", "error"}],
         block' \in [Streams -> 0..version],
         missed' \in [Streams -> SUBSET (1..version)],
         \A t \in Streams \ {s} :
           /\ pc'[t] = pc[t] /\ got'[t] = got[t] /\ ended'[t] = ended[t]
           /\ block'[t] = block[t] /\ out'[t] = out[t] /\ unread'[t] = unread[t],
         unread'[s] <= Cap(s), unread'[s] <= Len(out'[s]),
         kind[s] = "subscription" => got'[s] \in Seq(1..version),
         kind[s] # "subscription" => got'[s] \in Seq(ChatEvents),
         Local(s)', CacheCatchesUp'
  PROVE  Inv'
<1>1. kind' \in Kinds /\ version' \in 0..MaxVersion /\ version \in Nat
  BY BoundsTypes DEF Inv, TypeOK
<1>2. ASSUME NEW t \in Streams
      PROVE  /\ unread'[t] <= Cap(t)' /\ unread'[t] <= Len(out'[t])
             /\ kind'[t] = "subscription" => got'[t] \in Seq(1..version')
             /\ kind'[t] # "subscription" => got'[t] \in Seq(ChatEvents)
             /\ Local(t)'
  <2>1. Cap(t)' = Cap(t)
    BY DEF Cap
  <2>2. CASE t = s
    BY <2>1, <2>2, Zenon
  <2>3. CASE t # s
    <3>1. Local(t)'
      BY <1>1, <2>3, LocalKept
    <3>2. /\ unread[t] <= Cap(t) /\ unread[t] <= Len(out[t])
          /\ kind[t] = "subscription" => got[t] \in Seq(1..version)
          /\ kind[t] # "subscription" => got[t] \in Seq(ChatEvents)
      BY Zenon DEF Inv, TypeOK
    <3>3. unread'[t] = unread[t] /\ out'[t] = out[t] /\ got'[t] = got[t]
      BY <2>3
    <3> QED
      BY <2>1, <3>1, <3>2, <3>3, Zenon
  <2> QED
    BY <2>2, <2>3
<1> QED
  BY <1>1, <1>2, Zenon DEF Inv, TypeOK

------------------------------------------------------------------------------
(* The actions.                                                            *)

LEMMA EnvironmentKeeps ==
  ASSUME Inv, Change \/ UNCHANGED vars \/ \E s \in Streams : Take(s)
  PROVE  Inv'
<1> USE BoundsTypes
<1>1. UNCHANGED <<kind, cache, pc, got, ended, block, out, missed>>
  BY DEF Change, vars, Take
<1>2. version \in 0..MaxVersion /\ version' \in 0..MaxVersion /\ version <= version'
  BY DEF Inv, TypeOK, Change, vars, Take
<1>3. unread' \in [Streams -> Nat] /\ \A t \in Streams : unread'[t] <= unread[t]
  <2>1. unread \in [Streams -> Nat]
    BY DEF Inv, Shape
  <2>2. unread' = unread \/ \E s \in Streams : unread[s] > 0 /\ unread' = [unread EXCEPT ![s] = @ - 1]
    BY DEF Change, vars, Take
  <2> QED
    BY <2>1, <2>2
<1>4. Shape' /\ CacheCatchesUp'
  <2>1. CacheCatchesUp'
    BY <1>1, CacheKept DEF Inv
  <2> QED
    BY <1>1, <1>3, <2>1 DEF Inv, Shape
<1>5. ASSUME NEW t \in Streams PROVE Local(t)'
  BY <1>1, <1>2, LocalKept
<1>6. TypeOK'
  <2>1. /\ cache' \in 0..version' /\ block' \in [Streams -> 0..version']
        /\ missed' \in [Streams -> SUBSET (1..version')]
    BY <1>1, <1>2 DEF Inv, TypeOK
  <2>2. ASSUME NEW t \in Streams
        PROVE  /\ unread'[t] <= Cap(t)' /\ unread'[t] <= Len(out'[t])
               /\ kind'[t] = "subscription" => got'[t] \in Seq(1..version')
               /\ kind'[t] # "subscription" => got'[t] \in Seq(ChatEvents)
    <3>1. /\ unread[t] <= Cap(t) /\ unread[t] <= Len(out[t])
          /\ kind[t] = "subscription" => got[t] \in Seq(1..version)
          /\ kind[t] # "subscription" => got[t] \in Seq(ChatEvents)
      BY Zenon DEF Inv, TypeOK
    <3>2. unread'[t] \in Nat /\ unread[t] \in Nat /\ unread'[t] <= unread[t]
      BY <1>3 DEF Inv, Shape
    <3>3. Cap(t) \in Nat /\ Cap(t)' = Cap(t) /\ Len(out[t]) \in Nat
      BY <1>1, LenProperties DEF Cap, Inv, Shape
    <3>4. Seq(1..version) \subseteq Seq(1..version')
      <4>1. 1..version \subseteq 1..version'
        BY <1>2
      <4> QED
        BY <4>1, SeqMonotonic
    <3>5. unread'[t] <= Cap(t)' /\ unread'[t] <= Len(out'[t])
      BY <1>1, <3>1, <3>2, <3>3
    <3> QED
      BY <1>1, <3>1, <3>4, <3>5, Zenon
  <2> QED
    BY <1>1, <1>2, <2>1, <2>2, Zenon DEF Inv, TypeOK
<1> QED
  BY <1>4, <1>5, <1>6 DEF Inv

\* What a step starts from.
LEMMA Before ==
  ASSUME Inv, NEW s \in Streams
  PROVE  /\ pc \in [Streams -> {"recv", "callback", "update", "forward", "lastwords", "closed"}]
         /\ ended \in [Streams -> {"no", "eof", "error"}]
         /\ block \in [Streams -> 0..version] /\ version \in Nat /\ cache \in 0..version
         /\ missed \in [Streams -> SUBSET (1..version)]
         /\ unread[s] \in Nat /\ unread[s] <= Cap(s) /\ unread[s] <= Len(out[s])
         /\ got[s] \in Seq(Events) /\ out[s] \in Seq(Events)
         /\ Len(got[s]) \in Nat /\ Len(out[s]) \in Nat
         /\ kind[s] = "subscription" => got[s] \in Seq(1..version)
         /\ kind[s] # "subscription" => got[s] \in Seq(ChatEvents)
         /\ kind[s] \in {"subscription", "chat", "call"}
<1>1. /\ pc \in [Streams -> {"recv", "callback", "update", "forward", "lastwords", "closed"}]
      /\ ended \in [Streams -> {"no", "eof", "error"}]
      /\ block \in [Streams -> 0..version] /\ version \in 0..MaxVersion /\ cache \in 0..version
      /\ missed \in [Streams -> SUBSET (1..version)]
      /\ unread[s] <= Cap(s) /\ unread[s] <= Len(out[s])
      /\ kind[s] = "subscription" => got[s] \in Seq(1..version)
      /\ kind[s] # "subscription" => got[s] \in Seq(ChatEvents)
  BY Zenon DEF Inv, TypeOK
<1>2. unread[s] \in Nat /\ got[s] \in Seq(Events) /\ out[s] \in Seq(Events)
  BY DEF Inv, Shape
<1>3. Len(got[s]) \in Nat /\ Len(out[s]) \in Nat
  BY <1>2, LenProperties
<1>4. kind[s] \in {"subscription", "chat", "call"} /\ version \in Nat
  BY <1>1, KindTypes, BoundsTypes DEF Inv
<1> QED
  BY <1>1, <1>2, <1>3, <1>4

LEMMA EndKeeps ==
  ASSUME Inv, NEW s \in Streams, StreamEnds(s)
  PROVE  Inv'
<1>1. /\ pc[s] = "recv" /\ UNCHANGED <<kind, version, cache, got, block, out, unread, missed>>
      /\ \E how \in {"eof", "error"} :
           /\ ended' = [ended EXCEPT ![s] = how]
           /\ pc' = [pc EXCEPT ![s] =
                IF kind[s] = "chat" /\ how = "error" THEN "lastwords" ELSE "closed"]
  BY DEF StreamEnds, Goto
<1>2. PICK how \in {"eof", "error"} :
        /\ ended' = [ended EXCEPT ![s] = how]
        /\ pc' = [pc EXCEPT ![s] =
             IF kind[s] = "chat" /\ how = "error" THEN "lastwords" ELSE "closed"]
  BY <1>1
<1>3. /\ pc' \in [Streams -> {"recv", "callback", "update", "forward", "lastwords", "closed"}]
      /\ ended' \in [Streams -> {"no", "eof", "error"}]
      /\ ended'[s] = how
      /\ pc'[s] = IF kind[s] = "chat" /\ how = "error" THEN "lastwords" ELSE "closed"
      /\ \A t \in Streams \ {s} : pc'[t] = pc[t] /\ ended'[t] = ended[t]
  BY <1>2, Before
<1>4. Local(s)'
  <2>1. Local(s)
    BY DEF Inv
  <2>2. CASE kind[s] = "subscription"
    BY <1>1, <1>3, <2>1, <2>2 DEF Local, SubscriptionInv
  <2>3. CASE kind[s] = "chat"
    <3>1. out'[s] = got'[s]
      BY <1>1, <2>1, <2>3 DEF Local, ChatInv
    <3>2. CASE how = "error"
      BY <1>1, <1>3, <2>3, <3>1, <3>2 DEF Local, ChatInv
    <3>3. CASE how = "eof"
      BY <1>1, <1>3, <2>3, <3>1, <3>3 DEF Local, ChatInv, Whole
    <3> QED
      BY <3>2, <3>3
  <2>4. CASE kind[s] = "call"
    BY <1>1, <1>3, <2>4 DEF Local
  <2> QED
    BY <2>2, <2>3, <2>4, Before
<1>5. CacheCatchesUp'
  <2>1. \A t \in Subscriptions :
          pc[t] \in {"callback", "update"} => pc'[t] \in {"callback", "update"}
    BY <1>1, <1>3 DEF Subscriptions
  <2> QED
    BY <1>1, <2>1, CacheKept DEF Inv
<1>6. Shape'
  BY <1>1 DEF Inv, Shape
<1> QED
  BY <1>1, <1>3, <1>4, <1>5, <1>6, Before, InvKept

LEMMA EventRecvKeeps ==
  ASSUME Inv, NEW s \in Streams, EventRecv(s)
  PROVE  Inv'
<1>1. /\ pc[s] = "recv" /\ kind[s] = "subscription" /\ Len(got[s]) < version
      /\ Receive(s, Len(got[s]) + 1) /\ pc' = [pc EXCEPT ![s] = "callback"]
      /\ UNCHANGED <<kind, version, cache, ended, block, out, unread, missed>>
  BY DEF EventRecv, Goto
<1>2. /\ Len(got[s]) + 1 \in 1..version /\ Len(got[s]) + 1 \in Events
  <2>1. version \in 0..MaxVersion
    BY DEF Inv, TypeOK
  <2> QED
    BY <1>1, <2>1, Before, BoundsTypes DEF Events
<1>3. /\ got' \in [Streams -> Seq(Events)] /\ got'[s] = Append(got[s], Len(got[s]) + 1)
      /\ \A t \in Streams \ {s} : got'[t] = got[t]
  BY <1>1, <1>2, ReceiveEffect DEF Inv
<1>4. /\ got'[s] \in Seq(1..version) /\ Len(got'[s]) = Len(got[s]) + 1
      /\ \A i \in 1..Len(got[s]) : got'[s][i] = got[s][i]
      /\ got'[s][Len(got[s]) + 1] = Len(got[s]) + 1
  <2>1. got[s] \in Seq(1..version)
    BY <1>1, Before
  <2> QED
    BY <1>2, <1>3, <2>1, AppendElements
<1>5. /\ pc' \in [Streams -> {"recv", "callback", "update", "forward", "lastwords", "closed"}]
      /\ pc'[s] = "callback" /\ \A t \in Streams \ {s} : pc'[t] = pc[t]
  BY <1>1, Before
<1>6. Local(s)'
  <2>1. SubscriptionInv(s) /\ Len(got[s]) \in Nat
    BY <1>1, Before DEF Inv, Local
  <2>2. \A i \in 1..Len(got'[s]) : got'[s][i] = i
    BY <1>4, <2>1 DEF SubscriptionInv
  <2>3. \A i \in 1..Len(out'[s]) : out'[s][i] \in 1..Len(got'[s]) /\ out'[s][i] < Len(got'[s])
    BY <1>1, <1>4, <2>1 DEF SubscriptionInv
  <2>4. Len(got'[s]) <= version' /\ Len(got'[s]) > 0
    BY <1>1, <1>4, <2>1, Before
  <2>5. \A i, j \in 1..Len(out'[s]) : i < j => out'[s][i] < out'[s][j]
    BY <1>1, <2>1 DEF SubscriptionInv
  <2> QED
    BY <1>1, <1>5, <2>2, <2>3, <2>4, <2>5 DEF Local, SubscriptionInv
<1>7. CacheCatchesUp'
  <2>1. CASE Subscriptions = {s}
    <3>1. Behind(s) = {}
      BY <1>1, <2>1 DEF Inv, CacheCatchesUp
    <3>2. Behind(s)' \subseteq {Len(got'[s])}
      BY <1>1, <1>4, <3>1, Before DEF Behind
    <3> QED
      BY <1>1, <1>5, <3>2, OneAhead
  <2>2. CASE Subscriptions # {s}
    <3>1. Subscriptions' = Subscriptions /\ s \in Subscriptions
      BY <1>1 DEF Subscriptions
    <3> QED
      BY <2>2, <3>1 DEF CacheCatchesUp
  <2> QED
    BY <2>1, <2>2
<1>8. Shape'
  BY <1>1, <1>3 DEF Inv, Shape
<1> QED
  BY <1>1, <1>3, <1>4, <1>5, <1>6, <1>7, <1>8, Before, InvKept

LEMMA FetchKeeps ==
  ASSUME Inv, NEW s \in Streams, CallbackFetches(s)
  PROVE  Inv'
<1>1. /\ pc[s] = "callback" /\ block' = [block EXCEPT ![s] = version]
      /\ pc' = [pc EXCEPT ![s] = "update"]
      /\ UNCHANGED <<kind, version, cache, got, ended, out, unread, missed>>
  BY DEF CallbackFetches, Goto
<1>2. /\ pc' \in [Streams -> {"recv", "callback", "update", "forward", "lastwords", "closed"}]
      /\ block' \in [Streams -> 0..version] /\ pc'[s] = "update" /\ block'[s] = version
      /\ \A t \in Streams \ {s} : pc'[t] = pc[t] /\ block'[t] = block[t]
  BY <1>1, Before
<1>3. Local(s)'
  <2>1. kind[s] = "subscription" /\ SubscriptionInv(s)
    BY <1>1, Before DEF Inv, Local, ChatInv
  <2> QED
    BY <1>1, <1>2, <2>1 DEF Local, SubscriptionInv
<1>4. CacheCatchesUp'
  BY <1>1, <1>2, CacheKept DEF Inv, Subscriptions
<1>5. Shape'
  BY <1>1 DEF Inv, Shape
<1> QED
  BY <1>1, <1>2, <1>3, <1>4, <1>5, Before, InvKept

LEMMA SkipKeeps ==
  ASSUME Inv, NEW s \in Streams, CallbackSkips(s)
  PROVE  Inv'
<1>1. /\ pc[s] = "callback" /\ missed' = [missed EXCEPT ![s] = @ \cup {Len(got[s])}]
      /\ pc' = [pc EXCEPT ![s] = "forward"]
      /\ UNCHANGED <<kind, version, cache, got, ended, block, out, unread>>
  BY DEF CallbackSkips, Goto
<1>2. kind[s] = "subscription" /\ SubscriptionInv(s)
  BY <1>1, Before DEF Inv, Local, ChatInv
<1>3. Len(got[s]) \in 1..version
  BY <1>1, <1>2, Before DEF SubscriptionInv
<1>4. /\ pc' \in [Streams -> {"recv", "callback", "update", "forward", "lastwords", "closed"}]
      /\ missed' \in [Streams -> SUBSET (1..version)]
      /\ pc'[s] = "forward" /\ missed'[s] = missed[s] \cup {Len(got[s])}
      /\ \A t \in Streams \ {s} : pc'[t] = pc[t]
  BY <1>1, <1>3, Before
<1>5. Local(s)'
  BY <1>1, <1>2, <1>4 DEF Local, SubscriptionInv
<1>6. CacheCatchesUp'
  <2>1. CASE Subscriptions = {s}
    <3>1. Behind(s) \subseteq {Len(got[s])}
      BY <1>1, <2>1 DEF Inv, CacheCatchesUp
    <3>2. Behind(s)' = {}
      BY <1>1, <1>4, <3>1 DEF Behind
    <3> QED
      BY <1>1, <1>2, <3>2, OneAhead
  <2>2. CASE Subscriptions # {s}
    <3>1. Subscriptions' = Subscriptions /\ s \in Subscriptions
      BY <1>1, <1>2 DEF Subscriptions
    <3> QED
      BY <2>2, <3>1 DEF CacheCatchesUp
  <2> QED
    BY <2>1, <2>2
<1>7. Shape'
  BY <1>1 DEF Inv, Shape
<1> QED
  BY <1>1, <1>4, <1>5, <1>6, <1>7, Before, InvKept

LEMMA UpdateKeeps ==
  ASSUME Inv, NEW s \in Streams, CacheUpdate(s)
  PROVE  Inv'
<1>1. /\ pc[s] = "update" /\ cache' = block[s] /\ pc' = [pc EXCEPT ![s] = "forward"]
      /\ block' = [block EXCEPT ![s] = 0]
      /\ UNCHANGED <<kind, version, got, ended, out, unread, missed>>
  BY DEF CacheUpdate, Goto
<1>2. /\ pc' \in [Streams -> {"recv", "callback", "update", "forward", "lastwords", "closed"}]
      /\ block' \in [Streams -> 0..version] /\ pc'[s] = "forward"
      /\ \A t \in Streams \ {s} : pc'[t] = pc[t] /\ block'[t] = block[t]
  BY <1>1, Before
<1>3. kind[s] = "subscription" /\ SubscriptionInv(s)
  BY <1>1, Before DEF Inv, Local, ChatInv
<1>4. Local(s)'
  BY <1>1, <1>2, <1>3 DEF Local, SubscriptionInv
<1>5. CacheCatchesUp'
  <2>1. cache' >= Len(got'[s]) /\ cache' \in Nat /\ Len(got'[s]) \in Nat
    BY <1>1, <1>3, Before DEF SubscriptionInv
  <2>2. Behind(s)' = {}
    BY <2>1 DEF Behind
  <2> QED
    BY <1>1, <1>3, <2>2, OneAhead
<1>6. Shape'
  BY <1>1 DEF Inv, Shape
<1>7. cache' \in 0..version
  BY <1>1, Before
<1> QED
  BY <1>1, <1>2, <1>4, <1>5, <1>6, <1>7, Before, InvKept

\* A step that puts an event in a stream's channel.
LEMMA EnqueueKeeps ==
  ASSUME Inv, NEW s \in Streams, NEW e \in Events, Enqueue(s, e),
         unread[s] < Cap(s), NEW place \in {"recv", "closed"},
         pc[s] \notin {"callback", "update"}, pc' = [pc EXCEPT ![s] = place],
         UNCHANGED <<kind, version, cache, got, ended, block, missed>>, Local(s)'
  PROVE  Inv'
<1>1. /\ out' \in [Streams -> Seq(Events)] /\ unread' \in [Streams -> Nat]
      /\ out'[s] = Append(out[s], e) /\ unread'[s] = unread[s] + 1
      /\ \A t \in Streams \ {s} : out'[t] = out[t] /\ unread'[t] = unread[t]
  BY EnqueueEffect DEF Inv
<1>2. /\ pc' \in [Streams -> {"recv", "callback", "update", "forward", "lastwords", "closed"}]
      /\ pc'[s] = place /\ \A t \in Streams \ {s} : pc'[t] = pc[t]
  BY Before
<1>3. unread'[s] <= Cap(s) /\ unread'[s] <= Len(out'[s])
  <2>1. Len(out'[s]) = Len(out[s]) + 1
    BY <1>1, Before, AppendElements
  <2>2. Cap(s) \in Nat
    BY BoundsTypes DEF Cap
  <2> QED
    BY <1>1, <2>1, <2>2, Before
<1>4. CacheCatchesUp'
  BY <1>2, CacheKept DEF Inv, Subscriptions
<1>5. Shape'
  BY <1>1 DEF Inv, Shape
<1> QED
  BY <1>1, <1>2, <1>3, <1>4, <1>5, Before, InvKept

LEMMA EventForwardKeeps ==
  ASSUME Inv, NEW s \in Streams, EventForward(s)
  PROVE  Inv'
<1>1. /\ pc[s] = "forward" /\ kind[s] = "subscription" /\ pc' = [pc EXCEPT ![s] = "recv"]
      /\ UNCHANGED <<kind, version, cache, got, ended, block, missed>>
      /\ \/ unread[s] < SubCap /\ Enqueue(s, Last(got[s]))
         \/ unread[s] = SubCap /\ UNCHANGED <<out, unread>>
  BY DEF EventForward, Goto
<1>2. /\ pc' \in [Streams -> {"recv", "callback", "update", "forward", "lastwords", "closed"}]
      /\ pc'[s] = "recv" /\ \A t \in Streams \ {s} : pc'[t] = pc[t]
  BY <1>1, Before
<1>3. SubscriptionInv(s) /\ Len(got[s]) > 0
  BY <1>1, Before DEF Inv, Local, SubscriptionInv
<1>4. CASE UNCHANGED <<out, unread>>
  <2>1. Local(s)'
    BY <1>1, <1>2, <1>3, <1>4 DEF Local, SubscriptionInv
  <2>2. CacheCatchesUp'
    BY <1>1, <1>2, CacheKept DEF Inv, Subscriptions
  <2>3. Shape'
    BY <1>1, <1>4 DEF Inv, Shape
  <2> QED
    BY <1>1, <1>2, <1>4, <2>1, <2>2, <2>3, Before, InvKept
<1>5. CASE unread[s] < SubCap /\ Enqueue(s, Last(got[s]))
  <2>1. Last(got[s]) \in Events /\ Last(got[s]) = Len(got[s])
    BY <1>3, Before, LastIsEvent DEF Inv, SubscriptionInv
  <2>2. out'[s] = Append(out[s], Len(got[s]))
    BY <1>5, <2>1, EnqueueEffect DEF Inv
  <2>3. /\ Len(out'[s]) = Len(out[s]) + 1 /\ out'[s][Len(out[s]) + 1] = Len(got[s])
        /\ \A i \in 1..Len(out[s]) : out'[s][i] = out[s][i]
    BY <2>1, <2>2, Before, AppendElements
  <2>4. \A i \in 1..Len(out[s]) : out[s][i] \in 1..Len(got[s]) /\ out[s][i] < Len(got[s])
    BY <1>1, <1>3 DEF SubscriptionInv
  <2>5. ASSUME NEW i \in 1..Len(out'[s]) PROVE out'[s][i] \in 1..Len(got'[s])
    <3>1. got' = got /\ Len(got[s]) \in 1..Len(got[s]) /\ Len(out[s]) \in Nat
      BY <1>1, <1>3, Before
    <3>2. i \in 1..Len(out[s]) \/ i = Len(out[s]) + 1
      BY <2>3, <3>1
    <3>3. out'[s][i] \in 1..Len(got[s])
      BY <2>3, <2>4, <3>1, <3>2
    <3> QED
      BY <3>1, <3>3
  <2>6. ASSUME NEW i \in 1..Len(out'[s]), NEW j \in 1..Len(out'[s]), i < j
        PROVE  out'[s][i] < out'[s][j]
    <3>0. Len(out[s]) \in Nat
      BY Before
    <3>1. i \in 1..Len(out[s]) /\ out'[s][i] = out[s][i]
      <4>1. i \in 1..(Len(out[s]) + 1) /\ j \in 1..(Len(out[s]) + 1)
        BY <2>3
      <4>2. i \in 1..Len(out[s])
        BY <2>6, <3>0, <4>1
      <4> QED
        BY <2>3, <4>2
    <3>2. CASE j = Len(out[s]) + 1
      BY <2>3, <2>4, <3>1, <3>2
    <3>3. CASE j # Len(out[s]) + 1
      <4>1. j \in 1..Len(out[s]) /\ out'[s][j] = out[s][j]
        BY <2>3, <3>0, <3>3
      <4> QED
        BY <1>3, <2>6, <3>1, <4>1 DEF SubscriptionInv
    <3> QED
      BY <3>2, <3>3
  <2>7. Local(s)'
    BY <1>1, <1>2, <1>3, <2>5, <2>6 DEF Local, SubscriptionInv
  <2>8. unread[s] < Cap(s)
    BY <1>1, <1>5 DEF Cap
  <2> QED
    BY <1>1, <1>5, <2>1, <2>7, <2>8, EnqueueKeeps
<1> QED
  BY <1>1, <1>4, <1>5

LEMMA ChatForwardKeeps ==
  ASSUME Inv, NEW s \in Streams, ChatForward(s) \/ ChatFails(s)
  PROVE  Inv'
<1>1. CASE ChatForward(s)
  <2>1. /\ pc[s] = "forward" /\ kind[s] = "chat" /\ unread[s] < Cap(s)
        /\ Enqueue(s, Last(got[s])) /\ pc' = [pc EXCEPT ![s] = "recv"]
        /\ UNCHANGED <<kind, version, cache, got, ended, block, missed>>
    BY <1>1 DEF ChatForward, Goto, Cap
  <2>2. Len(got[s]) > 0 /\ got[s] = Append(out[s], Last(got[s])) /\ ended[s] = "no"
    BY <2>1 DEF Inv, Local, ChatInv
  <2>3. Last(got[s]) \in Events
    BY <2>2, LastIsEvent DEF Inv
  <2>4. out'[s] = got'[s]
    BY <2>1, <2>2, <2>3, EnqueueEffect DEF Inv
  <2>5. pc'[s] = "recv"
    BY <2>1, Before
  <2>6. Local(s)'
    BY <2>1, <2>2, <2>4, <2>5 DEF Local, ChatInv
  <2> QED
    BY <2>1, <2>3, <2>6, EnqueueKeeps
<1>2. CASE ChatFails(s)
  <2>1. /\ pc[s] = "lastwords" /\ unread[s] < ChatCap
        /\ Enqueue(s, StreamError) /\ pc' = [pc EXCEPT ![s] = "closed"]
        /\ UNCHANGED <<kind, version, cache, got, ended, block, missed>>
    BY <1>2 DEF ChatFails, Goto
  <2>2. kind[s] = "chat"
    BY <2>1, Before DEF Inv, Local, SubscriptionInv
  <2>3. StreamError \in Events /\ unread[s] < Cap(s)
    BY <2>1, <2>2 DEF Events, Cap
  <2>4. out[s] = got[s] /\ ended[s] = "error"
    BY <2>1, <2>2 DEF Inv, Local, ChatInv
  <2>5. out'[s] = Append(out[s], StreamError)
    BY <2>1, <2>3, EnqueueEffect DEF Inv
  <2>6. out'[s] = Whole(s)' /\ pc'[s] = "closed"
    BY <2>1, <2>4, <2>5, Before DEF Whole, StreamError
  <2>7. Local(s)'
    BY <2>1, <2>2, <2>6 DEF Local, ChatInv
  <2> QED
    BY <2>1, <2>3, <2>7, EnqueueKeeps
<1> QED
  BY <1>1, <1>2

LEMMA AnswerKeeps ==
  ASSUME Inv, NEW s \in Streams, ChatRecv(s) \/ CallRecv(s)
  PROVE  Inv'
<1>1. /\ pc[s] = "recv" /\ kind[s] \in {"chat", "call"}
      /\ UNCHANGED <<kind, version, cache, ended, block, out, unread, missed>>
      /\ \E e \in ChatEvents, place \in {"recv", "forward", "closed"} :
           /\ Receive(s, e) /\ pc' = [pc EXCEPT ![s] = place]
           /\ kind[s] = "chat" => place = "forward"
           /\ kind[s] = "call" => place \in {"recv", "closed"}
  BY DEF ChatRecv, CallRecv, Goto
<1>2. PICK e \in ChatEvents, place \in {"recv", "forward", "closed"} :
        /\ Receive(s, e) /\ pc' = [pc EXCEPT ![s] = place]
        /\ kind[s] = "chat" => place = "forward"
        /\ kind[s] = "call" => place \in {"recv", "closed"}
  BY <1>1
<1>3. e \in Events
  BY DEF Events
<1>4. /\ got' \in [Streams -> Seq(Events)] /\ got'[s] = Append(got[s], e)
      /\ \A t \in Streams \ {s} : got'[t] = got[t]
  BY <1>2, <1>3, ReceiveEffect DEF Inv
<1>5. /\ got'[s] \in Seq(ChatEvents) /\ Len(got'[s]) = Len(got[s]) + 1
      /\ got'[s][Len(got[s]) + 1] = e
  <2>1. got[s] \in Seq(ChatEvents)
    BY <1>1, Before
  <2> QED
    BY <1>4, <2>1, AppendElements
<1>6. /\ pc' \in [Streams -> {"recv", "callback", "update", "forward", "lastwords", "closed"}]
      /\ pc'[s] = place /\ \A t \in Streams \ {s} : pc'[t] = pc[t]
  BY <1>2, Before
<1>7. Local(s)'
  <2>1. CASE kind[s] = "chat"
    <3>1. out[s] = got[s] /\ ended[s] = "no"
      BY <1>1, <2>1 DEF Inv, Local, ChatInv
    <3>2. Last(got'[s]) = e /\ Len(got'[s]) > 0
      BY <1>5, Before DEF Last
    <3> QED
      BY <1>1, <1>2, <1>4, <1>6, <2>1, <3>1, <3>2 DEF Local, ChatInv
  <2>2. CASE kind[s] = "call"
    BY <1>1, <1>2, <1>6, <2>2 DEF Local
  <2> QED
    BY <1>1, <2>1, <2>2
<1>8. CacheCatchesUp'
  <2>1. s \notin Subscriptions
    BY <1>1 DEF Subscriptions
  <2> QED
    BY <1>1, <1>4, <1>6, <2>1, CacheKept DEF Inv, Subscriptions
<1>9. Shape'
  BY <1>1, <1>4 DEF Inv, Shape
<1> QED
  BY <1>1, <1>4, <1>5, <1>6, <1>7, <1>8, <1>9, Before, InvKept

LEMMA InvAlways == Spec => []Inv
<1>1. Init => Inv
  BY InvInit
<1>2. Inv /\ [Next]_vars => Inv'
  <2> SUFFICES ASSUME Inv, [Next]_vars PROVE Inv'
    OBVIOUS
  <2>1. CASE Change \/ UNCHANGED vars \/ \E s \in Streams : Take(s)
    BY <2>1, EnvironmentKeeps
  <2>2. ASSUME NEW s \in Streams,
               StreamEnds(s) \/ EventRecv(s) \/ ChatRecv(s) \/ CallRecv(s) \/ Continue(s)
        PROVE  Inv'
    BY <2>2, EndKeeps, EventRecvKeeps, AnswerKeeps, FetchKeeps, SkipKeeps, UpdateKeeps,
       EventForwardKeeps, ChatForwardKeeps DEF Continue
  <2> QED
    BY <2>1, <2>2 DEF Next, Terminated
<1> QED
  BY <1>1, <1>2, PTL DEF Spec

------------------------------------------------------------------------------
(* The theorems.                                                           *)

\* The readers' state keeps its types, and no channel holds more than its
\* capacity, for any number of streams.
THEOREM StreamsTyping == Spec => []TypeOK
<1>1. Inv => TypeOK
  BY DEF Inv
<1> QED
  BY <1>1, InvAlways, PTL

\* With one subscription, however many versions the daemon makes, however few
\* of the events its channel has room for and whichever callbacks fail, the
\* cache has caught up with every event whose callback brought a block.
THEOREM CacheFollowsEvents == Spec => []CacheCatchesUp
<1>1. Inv => CacheCatchesUp
  BY DEF Inv
<1> QED
  BY <1>1, InvAlways, PTL

\* ChatStream's channel carries the whole answer in order and ends with it; a
\* subscription's carries some of its events in their order.
THEOREM EventsInOrder == Spec => []StreamsInOrder
<1>1. ASSUME Inv, NEW s \in Streams, kind[s] = "chat"
      PROVE  /\ IsPrefix(out[s], Whole(s))
             /\ pc[s] = "recv" => out[s] = got[s]
             /\ pc[s] = "closed" => out[s] = Whole(s)
  <2>1. ChatInv(s)
    BY <1>1 DEF Inv, Local
  <2>2. /\ \E e \in Events : Whole(s) = out[s] \/ Whole(s) = Append(out[s], e)
    <3>1. StreamError \in Events
      BY DEF Events
    <3>2. pc[s] = "forward" => Last(got[s]) \in Events
      BY <1>1, <2>1, LastIsEvent DEF Inv, ChatInv
    <3> QED
      BY <2>1, <3>1, <3>2 DEF ChatInv, Whole
  <2>3. PICK e \in Events : Whole(s) = out[s] \/ Whole(s) = Append(out[s], e)
    BY <2>2
  <2>4. /\ Len(out[s]) \in Nat /\ out[s] \in Seq(Events)
        /\ Len(Append(out[s], e)) = Len(out[s]) + 1 /\ Append(out[s], e) \in Seq(Events)
        /\ \A i \in 1..Len(out[s]) : Append(out[s], e)[i] = out[s][i]
    BY <1>1, Before, AppendElements
  <2>5. SubSeq(Append(out[s], e), 1, Len(out[s])) = SubSeq(out[s], 1, Len(out[s]))
    BY <2>4
  <2>6. IsPrefix(out[s], Whole(s))
    BY <2>3, <2>4, <2>5 DEF IsPrefix
  <2> QED
    BY <2>1, <2>6 DEF ChatInv
<1>2. ASSUME Inv, NEW s \in Streams, kind[s] = "subscription"
      PROVE  Increasing(out[s]) /\ ToSet(out[s]) \subseteq ToSet(got[s])
  <2>1. SubscriptionInv(s)
    BY <1>2 DEF Inv, Local
  <2>2. DOMAIN out[s] = 1..Len(out[s]) /\ DOMAIN got[s] = 1..Len(got[s])
    BY <1>2, Before, LenProperties
  <2>3. Increasing(out[s])
    BY <2>1, <2>2 DEF SubscriptionInv, Increasing
  <2>4. \A i \in DOMAIN out[s] : out[s][i] \in DOMAIN got[s] /\ got[s][out[s][i]] = out[s][i]
    BY <2>1, <2>2 DEF SubscriptionInv
  <2>5. ToSet(out[s]) \subseteq ToSet(got[s])
    BY <2>4 DEF ToSet
  <2> QED
    BY <2>3, <2>5
<1>3. Inv => StreamsInOrder
  BY <1>1, <1>2 DEF StreamsInOrder
<1> QED
  BY <1>3, InvAlways, PTL

------------------------------------------------------------------------------
(* Chat.  The reply agrees with the events at every place of the reader,   *)
(* and the reader goes on only while nothing has failed.                   *)

Failed(q) == \E i \in DOMAIN q : q[i].type = "ERROR"

CallInv(s) ==
  /\ CarriesTexts(reply[s].text, got[s])
  /\ CarriesSession(reply[s].session, got[s])
  /\ pc[s] = "recv" => ended[s] = "no" /\ ~Failed(got[s])
  /\ pc[s] = "closed" => (reply[s].err <=> ended[s] = "error" \/ Failed(got[s]))

Sessions == {NoSession} \cup {e.session : e \in ChatEvents}
Replies  == [text : Seq(ChatEvents), session : Sessions, err : BOOLEAN]

RepliesAgree ==
  /\ reply \in [Streams -> Replies]
  /\ \A s \in Streams : kind[s] = "call" => CallInv(s)

\* The places of a longer answer.
LEMMA LongerAnswer ==
  ASSUME NEW q \in Seq(ChatEvents), NEW e \in ChatEvents
  PROVE  /\ Len(q) \in Nat /\ DOMAIN q = 1..Len(q)
         /\ DOMAIN Append(q, e) = 1..Len(q) + 1
         /\ \A i \in 1..Len(q) : Append(q, e)[i] = q[i]
         /\ Append(q, e)[Len(q) + 1] = e
  BY AppendElements, LenProperties

LEMMA TextPlacesGrow ==
  ASSUME NEW q \in Seq(ChatEvents), NEW e \in ChatEvents
  PROVE  TextPlaces(Append(q, e)) =
           TextPlaces(q) \cup (IF e.type = "TEXT" THEN {Len(q) + 1} ELSE {})
  BY LongerAnswer DEF TextPlaces

\* A text that comes last is collected last; another event changes nothing.
LEMMA CollectTexts ==
  ASSUME NEW q \in Seq(ChatEvents), NEW texts \in Seq(ChatEvents), NEW e \in ChatEvents,
         CarriesTexts(texts, q)
  PROVE  CarriesTexts(IF e.type = "TEXT" THEN Append(texts, e) ELSE texts, Append(q, e))
<1>1. PICK f \in [DOMAIN texts -> TextPlaces(q)] :
        /\ Increasing(f) /\ Range(f) = TextPlaces(q)
        /\ \A i \in DOMAIN texts : texts[i] = q[f[i]]
  BY DEF CarriesTexts
<1>2. /\ Len(q) \in Nat /\ DOMAIN q = 1..Len(q)
      /\ \A i \in 1..Len(q) : Append(q, e)[i] = q[i]
      /\ Append(q, e)[Len(q) + 1] = e
  BY LongerAnswer
<1>3. TextPlaces(q) \subseteq 1..Len(q)
  BY <1>2 DEF TextPlaces
<1>4. CASE e.type # "TEXT"
  <2>1. TextPlaces(Append(q, e)) = TextPlaces(q)
    BY <1>4, TextPlacesGrow
  <2>2. \A i \in DOMAIN texts : texts[i] = Append(q, e)[f[i]]
    BY <1>1, <1>2, <1>3
  <2>3. CarriesTexts(texts, Append(q, e))
    BY <1>1, <2>1, <2>2 DEF CarriesTexts
  <2> QED
    BY <1>4, <2>3
<1>5. CASE e.type = "TEXT"
  <2> DEFINE n == Len(texts)
             new == Append(texts, e)
             g == [i \in DOMAIN new |-> IF i \in DOMAIN texts THEN f[i] ELSE Len(q) + 1]
  <2>1. /\ n \in Nat /\ DOMAIN texts = 1..n /\ DOMAIN new = 1..n + 1
        /\ \A i \in 1..n : new[i] = texts[i]
        /\ new[n + 1] = e
    BY LongerAnswer
  <2> HIDE DEF n, new
  <2>2. TextPlaces(Append(q, e)) = TextPlaces(q) \cup {Len(q) + 1}
    BY <1>5, TextPlacesGrow
  <2>3. /\ \A i \in 1..n : g[i] = f[i] /\ f[i] \in TextPlaces(q)
        /\ g[n + 1] = Len(q) + 1 /\ DOMAIN g = 1..n + 1
    BY <1>1, <2>1
  <2>4. g \in [DOMAIN new -> TextPlaces(Append(q, e))]
    BY <1>1, <2>1, <2>2
  <2> HIDE DEF g
  <2>5. Increasing(g)
    <3>1. ASSUME NEW i \in 1..n + 1, NEW j \in 1..n + 1, i < j PROVE g[i] < g[j]
      <4>1. i \in 1..n
        BY <2>1, <3>1
      <4>2. CASE j \in 1..n
        BY <1>1, <2>1, <2>3, <3>1, <4>1, <4>2 DEF Increasing
      <4>3. CASE j = n + 1
        BY <1>2, <1>3, <2>3, <4>1, <4>3
      <4> QED
        BY <2>1, <4>2, <4>3
    <3> QED
      BY <2>3, <3>1 DEF Increasing
  <2>6. Range(g) = TextPlaces(Append(q, e))
    <3>1. Range(f) = {f[i] : i \in 1..n} /\ Range(g) = {g[i] : i \in 1..n + 1}
      BY <1>1, <2>1, <2>3 DEF Range
    <3>2. Range(g) \subseteq TextPlaces(Append(q, e))
      BY <2>1, <2>2, <2>3, <3>1
    <3>3. ASSUME NEW k \in TextPlaces(q) PROVE k \in Range(g)
      <4>1. PICK i \in 1..n : k = f[i]
        BY <1>1, <3>1
      <4>2. i \in 1..n + 1 /\ k = g[i]
        BY <2>1, <2>3, <4>1
      <4> QED
        BY <3>1, <4>2
    <3>4. Len(q) + 1 \in Range(g)
      <4>1. n + 1 \in 1..n + 1
        BY <2>1
      <4> QED
        BY <2>3, <3>1, <4>1
    <3> QED
      BY <2>2, <3>2, <3>3, <3>4
  <2>7. \A i \in DOMAIN new : new[i] = Append(q, e)[g[i]]
    <3>1. ASSUME NEW i \in 1..n PROVE new[i] = Append(q, e)[g[i]]
      <4>1. g[i] = f[i] /\ f[i] \in 1..Len(q)
        BY <1>3, <2>3
      <4>2. new[i] = q[f[i]]
        BY <1>1, <2>1
      <4> QED
        BY <1>2, <4>1, <4>2
    <3>2. new[n + 1] = Append(q, e)[g[n + 1]]
      BY <1>2, <2>1, <2>3
    <3>3. \A i \in DOMAIN new : i \in 1..n \/ i = n + 1
      BY <2>1
    <3> QED
      BY <3>1, <3>2, <3>3
  <2>8. CarriesTexts(new, Append(q, e))
    BY <2>4, <2>5, <2>6, <2>7 DEF CarriesTexts
  <2> QED
    BY <1>5, <2>8 DEF new
<1> QED
  BY <1>4, <1>5

\* The first session id stays the first.
LEMMA CollectSession ==
  ASSUME NEW q \in Seq(ChatEvents), NEW session, NEW e \in ChatEvents,
         CarriesSession(session, q)
  PROVE  CarriesSession(IF session = NoSession THEN e.session ELSE session, Append(q, e))
<1>1. /\ Len(q) \in Nat /\ DOMAIN q = 1..Len(q) /\ DOMAIN Append(q, e) = 1..Len(q) + 1
      /\ \A i \in 1..Len(q) : Append(q, e)[i] = q[i]
      /\ Append(q, e)[Len(q) + 1] = e
  BY LongerAnswer
<1>2. CASE session # NoSession
  <2>1. PICK i \in DOMAIN q : /\ session = q[i].session
                              /\ \A j \in DOMAIN q : j < i => q[j].session = NoSession
    BY <1>2 DEF CarriesSession
  <2>2. /\ i \in DOMAIN Append(q, e) /\ session = Append(q, e)[i].session
        /\ \A j \in DOMAIN Append(q, e) : j < i => Append(q, e)[j].session = NoSession
    BY <1>1, <2>1
  <2> QED
    BY <1>2, <2>2 DEF CarriesSession
<1>3. CASE session = NoSession
  <2>1. \A i \in 1..Len(q) : Append(q, e)[i].session = NoSession
    BY <1>1, <1>3 DEF CarriesSession
  <2>2. CASE e.session = NoSession
    <3>1. \A i \in DOMAIN Append(q, e) : Append(q, e)[i].session = NoSession
      BY <1>1, <2>1, <2>2
    <3> QED
      BY <1>3, <2>2, <3>1 DEF CarriesSession
  <2>3. CASE e.session # NoSession
    <3>1. /\ Len(q) + 1 \in DOMAIN Append(q, e)
          /\ \A j \in DOMAIN Append(q, e) : j < Len(q) + 1 => Append(q, e)[j].session = NoSession
      BY <1>1, <2>1
    <3> QED
      BY <1>1, <1>3, <2>3, <3>1 DEF CarriesSession
  <2> QED
    BY <2>2, <2>3
<1> QED
  BY <1>2, <1>3

LEMMA FailedGrows ==
  ASSUME NEW q \in Seq(ChatEvents), NEW e \in ChatEvents
  PROVE  Failed(Append(q, e)) <=> Failed(q) \/ e.type = "ERROR"
<1>1. /\ Len(q) \in Nat /\ DOMAIN q = 1..Len(q) /\ DOMAIN Append(q, e) = 1..Len(q) + 1
      /\ \A i \in 1..Len(q) : Append(q, e)[i] = q[i]
      /\ Append(q, e)[Len(q) + 1] = e
  BY LongerAnswer
<1>2. ASSUME Failed(q) PROVE Failed(Append(q, e))
  <2>1. PICK i \in DOMAIN q : q[i].type = "ERROR"
    BY <1>2 DEF Failed
  <2> QED
    BY <1>1, <2>1 DEF Failed
<1>3. ASSUME e.type = "ERROR" PROVE Failed(Append(q, e))
  <2>1. Len(q) + 1 \in DOMAIN Append(q, e)
    BY <1>1
  <2> QED
    BY <1>1, <1>3, <2>1 DEF Failed
<1>4. ASSUME Failed(Append(q, e)), e.type # "ERROR" PROVE Failed(q)
  <2>1. PICK i \in DOMAIN Append(q, e) : Append(q, e)[i].type = "ERROR"
    BY <1>4 DEF Failed
  <2>2. i \in DOMAIN q /\ q[i].type = "ERROR"
    BY <1>1, <1>4, <2>1
  <2> QED
    BY <2>2 DEF Failed
<1> QED
  BY <1>2, <1>3, <1>4

LEMMA RepliesInit == Init => RepliesAgree
<1> SUFFICES ASSUME Init PROVE RepliesAgree
  OBVIOUS
<1>1. /\ pc = [s \in Streams |-> "recv"] /\ got = [s \in Streams |-> <<>>]
      /\ ended = [s \in Streams |-> "no"]
      /\ reply = [s \in Streams |-> [text |-> <<>>, session |-> NoSession, err |-> FALSE]]
  BY DEF Init
<1>2. [text |-> <<>>, session |-> NoSession, err |-> FALSE] \in Replies
  BY DEF Replies, Sessions
<1>3. reply \in [Streams -> Replies]
  BY <1>1, <1>2
<1>4. CarriesTexts(<<>>, <<>>)
  <2> DEFINE f == [i \in {} |-> i]
  <2>1. TextPlaces(<<>>) = {} /\ DOMAIN <<>> = {}
    BY DEF TextPlaces
  <2>2. f \in [{} -> {}] /\ Increasing(f) /\ Range(f) = {}
    BY DEF Increasing, Range
  <2> QED
    BY <2>1, <2>2 DEF CarriesTexts
<1>5. CarriesSession(NoSession, <<>>) /\ ~Failed(<<>>)
  BY DEF CarriesSession, Failed
<1>6. ASSUME NEW s \in Streams PROVE CallInv(s)
  <2>1. /\ reply[s].text = <<>> /\ reply[s].session = NoSession /\ got[s] = <<>>
        /\ pc[s] = "recv" /\ ended[s] = "no"
    BY <1>1
  <2> QED
    BY <1>4, <1>5, <2>1 DEF CallInv
<1> QED
  BY <1>3, <1>6 DEF RepliesAgree

\* A stream that a step leaves alone keeps its reply.
LEMMA CallKept ==
  ASSUME NEW s \in Streams, CallInv(s), reply'[s] = reply[s], got'[s] = got[s],
         pc'[s] = pc[s], ended'[s] = ended[s]
  PROVE  CallInv(s)'
  BY DEF CallInv

LEMMA CallRecvKeeps ==
  ASSUME Inv, RepliesAgree, NEW s \in Streams, CallRecv(s)
  PROVE  RepliesAgree'
<1>1. PICK e \in ChatEvents :
        /\ Receive(s, e) /\ reply' = [reply EXCEPT ![s] = Collect(@, e)]
        /\ pc' = [pc EXCEPT ![s] = IF e.type = "ERROR" THEN "closed" ELSE "recv"]
  BY DEF CallRecv, Goto
<1>2. /\ pc[s] = "recv" /\ kind[s] = "call" /\ UNCHANGED <<kind, ended>>
      /\ got[s] \in Seq(ChatEvents) /\ reply \in [Streams -> Replies] /\ CallInv(s)
  BY Before DEF CallRecv, RepliesAgree
<1>3. /\ got'[s] = Append(got[s], e) /\ \A t \in Streams \ {s} : got'[t] = got[t]
  <2>1. e \in Events
    BY DEF Events
  <2> QED
    BY <1>1, <2>1, ReceiveEffect DEF Inv
<1>4. /\ pc'[s] = IF e.type = "ERROR" THEN "closed" ELSE "recv"
      /\ \A t \in Streams \ {s} : pc'[t] = pc[t]
  BY <1>1, Before
<1>5. /\ reply[s] \in Replies /\ reply[s].text \in Seq(ChatEvents) /\ reply[s].session \in Sessions
  BY <1>2 DEF Replies
<1>6. /\ Collect(reply[s], e).text = (IF e.type = "TEXT" THEN Append(reply[s].text, e) ELSE reply[s].text)
      /\ Collect(reply[s], e).session = (IF reply[s].session = NoSession THEN e.session ELSE reply[s].session)
      /\ Collect(reply[s], e).err = (e.type = "ERROR")
  BY DEF Collect
<1>7. Collect(reply[s], e) \in Replies
  <2>1. Append(reply[s].text, e) \in Seq(ChatEvents)
    BY <1>5, AppendElements
  <2>2. e.session \in Sessions
    BY DEF Sessions
  <2> QED
    BY <1>5, <2>1, <2>2 DEF Collect, Replies
<1>8. /\ reply' \in [Streams -> Replies] /\ reply'[s] = Collect(reply[s], e)
      /\ \A t \in Streams \ {s} : reply'[t] = reply[t]
  BY <1>1, <1>2, <1>7
<1>9. CallInv(s)'
  <2>1. CarriesTexts(reply'[s].text, got'[s])
    BY <1>2, <1>3, <1>5, <1>6, <1>8, CollectTexts DEF CallInv
  <2>2. CarriesSession(reply'[s].session, got'[s])
    BY <1>2, <1>3, <1>6, <1>8, CollectSession DEF CallInv
  <2>3. Failed(got'[s]) <=> e.type = "ERROR"
    BY <1>2, <1>3, FailedGrows DEF CallInv
  <2>4. reply'[s].err <=> e.type = "ERROR"
    BY <1>6, <1>8
  <2>5. ended'[s] = "no"
    BY <1>2 DEF CallInv
  <2> QED
    BY <1>4, <2>1, <2>2, <2>3, <2>4, <2>5 DEF CallInv
<1>10. ASSUME NEW t \in Streams, kind'[t] = "call" PROVE CallInv(t)'
  <2>1. CASE t # s
    BY <1>2, <1>3, <1>4, <1>8, <1>10, <2>1, CallKept DEF RepliesAgree
  <2> QED
    BY <1>9, <2>1
<1> QED
  BY <1>8, <1>10 DEF RepliesAgree

LEMMA CallEndKeeps ==
  ASSUME Inv, RepliesAgree, NEW s \in Streams, StreamEnds(s)
  PROVE  RepliesAgree'
<1>1. PICK how \in {"eof", "error"} :
        /\ ended' = [ended EXCEPT ![s] = how]
        /\ pc' = [pc EXCEPT ![s] =
             IF kind[s] = "chat" /\ how = "error" THEN "lastwords" ELSE "closed"]
        /\ reply' = [reply EXCEPT ![s].err = (kind[s] = "call" /\ how = "error")]
  BY DEF StreamEnds, Goto
<1>2. /\ pc[s] = "recv" /\ UNCHANGED <<kind, got>> /\ reply \in [Streams -> Replies]
  BY DEF StreamEnds, RepliesAgree
<1>3. /\ ended'[s] = how
      /\ pc'[s] = IF kind[s] = "chat" /\ how = "error" THEN "lastwords" ELSE "closed"
      /\ \A t \in Streams \ {s} : pc'[t] = pc[t] /\ ended'[t] = ended[t]
  BY <1>1, Before
<1>4. /\ reply' \in [Streams -> Replies]
      /\ reply'[s].text = reply[s].text /\ reply'[s].session = reply[s].session
      /\ reply'[s].err = (kind[s] = "call" /\ how = "error")
      /\ \A t \in Streams \ {s} : reply'[t] = reply[t]
  BY <1>1, <1>2 DEF Replies
<1>5. ASSUME NEW t \in Streams, kind'[t] = "call" PROVE CallInv(t)'
  <2>1. CallInv(t)
    BY <1>2, <1>5 DEF RepliesAgree
  <2>2. CASE t # s
    BY <1>2, <1>3, <1>4, <2>1, <2>2, CallKept
  <2>3. CASE t = s
    BY <1>2, <1>3, <1>4, <1>5, <2>1, <2>3 DEF CallInv
  <2> QED
    BY <2>2, <2>3
<1> QED
  BY <1>4, <1>5 DEF RepliesAgree

\* No other step changes a call or its reply.
LEMMA OthersKeepReplies ==
  ASSUME Inv, RepliesAgree, NEW s \in Streams,
         \/ Take(s) \/ EventRecv(s) \/ ChatRecv(s) \/ Continue(s)
  PROVE  RepliesAgree'
<1>1. UNCHANGED <<kind, ended, reply>>
  BY DEF Take, EventRecv, ChatRecv, Continue, CallbackFetches, CallbackSkips, CacheUpdate,
     EventForward, ChatForward, ChatFails
<1>2. \A t \in Streams \ {s} : pc'[t] = pc[t] /\ got'[t] = got[t]
  BY Before DEF Inv, Shape, Take, EventRecv, ChatRecv, Continue, CallbackFetches, CallbackSkips,
     CacheUpdate, EventForward, ChatForward, ChatFails, Receive, Goto
<1>3. kind[s] = "call" => UNCHANGED <<pc, got>>
  <2>1. kind[s] = "call" => pc[s] \in {"recv", "closed"}
    BY DEF Inv, Local
  <2> QED
    BY <2>1 DEF Take, EventRecv, ChatRecv, Continue, CallbackFetches, CallbackSkips,
       CacheUpdate, EventForward, ChatForward, ChatFails
<1>4. ASSUME NEW t \in Streams, kind'[t] = "call" PROVE CallInv(t)'
  <2>1. pc'[t] = pc[t] /\ got'[t] = got[t]
    BY <1>1, <1>2, <1>3, <1>4
  <2> QED
    BY <1>1, <1>4, <2>1, CallKept DEF RepliesAgree
<1> QED
  BY <1>1, <1>4 DEF RepliesAgree

\* Chat gives its caller what a reader of ChatStream would make of the same
\* events, however many there are: every text in its place, the first session
\* id, and an error exactly when the answer or its stream failed.
THEOREM ChatAgreesWithStream == Spec => []ChatAgrees
<1>1. Inv /\ RepliesAgree /\ [Next]_vars => RepliesAgree'
  <2> SUFFICES ASSUME Inv, RepliesAgree, [Next]_vars PROVE RepliesAgree'
    OBVIOUS
  <2>1. CASE Change \/ UNCHANGED vars
    BY <2>1, CallKept DEF Change, vars, RepliesAgree
  <2>2. ASSUME NEW s \in Streams,
               \/ Take(s) \/ StreamEnds(s) \/ EventRecv(s) \/ ChatRecv(s) \/ CallRecv(s)
               \/ Continue(s)
        PROVE  RepliesAgree'
    BY <2>2, CallRecvKeeps, CallEndKeeps, OthersKeepReplies
  <2> QED
    BY <2>1, <2>2 DEF Next, Terminated
<1>2. RepliesAgree => ChatAgrees
  BY DEF RepliesAgree, CallInv, Failed, ChatAgrees
<1> QED
  BY <1>1, <1>2, RepliesInit, InvAlways, PTL DEF Spec
==============================================================================
