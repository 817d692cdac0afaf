-------------------------- MODULE EmailPollerProofs --------------------------
(***************************************************************************)
(* Proofs about EmailPoller, for any listeners, mailbox and capacity.      *)
(*                                                                         *)
(* That nothing is lost needs to know where the messages of a batch are    *)
(* while it is sent (InHand): each one up to the highest UID fetched was   *)
(* sent to somebody or is still in the batch, because the batch began at a *)
(* position that lastSeenUID had reached.                                  *)
(***************************************************************************)
EXTENDS EmailPoller, TLAPS

InHand(l) ==
  /\ lastUID[l] <= lastSeenUID
  /\ batch[l] \subseteq Wanted
  /\ pc[l] = "sending" =>
       \A u \in Wanted : u <= fetched[l] => u \in Received \cup batch[l]

Inv == NothingLost /\ \A l \in Listeners : InHand(l)

------------------------------------------------------------------------------
(* Typing.                                                                 *)

LEMMA TypeInit == Init => TypeOK
<1>1. Init => arrived \in 0..MaxUIDs /\ lastSeenUID \in 0..arrived
  BY BoundsAssumption DEF Init
<1>2. Init => connected \in BOOLEAN /\ stopped \in BOOLEAN /\ overlapped \in BOOLEAN
  BY DEF Init
<1>3. Init => /\ lastUID \in [Listeners -> 0..arrived]
              /\ fetched \in [Listeners -> 0..arrived]
              /\ queued \in [Listeners -> 0..Cap]
  BY BoundsAssumption DEF Init
<1>4. Init => /\ pc \in [Listeners -> {"idle", "select", "fetch", "sending", "gone"}]
              /\ ctxDone \in [Listeners -> BOOLEAN]
  BY DEF Init
<1>5. Init => /\ batch \in [Listeners -> SUBSET (1..arrived)]
              /\ sent \in [Listeners -> SUBSET (1..arrived)]
              /\ again \in [Listeners -> SUBSET (1..arrived)]
              /\ cut \in [Listeners -> SUBSET (1..arrived)]
  BY DEF Init
<1> QED
  BY <1>1, <1>2, <1>3, <1>4, <1>5 DEF TypeOK

\* The steps that change one listener's place and poll only.
LEMMA PollEndsTypes ==
  ASSUME TypeOK, NEW l \in Listeners, PollEnds(l)
  PROVE  /\ pc' \in [Listeners -> {"idle", "select", "fetch", "sending", "gone"}]
         /\ lastUID' \in [Listeners -> 0..arrived]
         /\ fetched' \in [Listeners -> 0..arrived]
         /\ batch' \in [Listeners -> SUBSET (1..arrived)]
  BY BoundsAssumption DEF TypeOK, PollEnds, Goto

LEMMA TypeNext == TypeOK /\ [Next]_vars => TypeOK'
<1> SUFFICES ASSUME TypeOK, [Next]_vars PROVE TypeOK'
  OBVIOUS
<1> USE BoundsAssumption
<1>1. CASE MailArrives
  <2>1. 0..arrived \subseteq 0..arrived' /\ 1..arrived \subseteq 1..arrived'
    BY <1>1 DEF TypeOK, MailArrives
  <2>2. arrived' \in 0..MaxUIDs
    BY <1>1 DEF TypeOK, MailArrives
  <2> QED
    BY <1>1, <2>1, <2>2 DEF TypeOK, MailArrives, adapter, local, history
<1>2. CASE Connect
  BY <1>2 DEF TypeOK, Connect, local, history
<1>3. CASE Close
  BY <1>3 DEF TypeOK, Close, local, history
<1>4. ASSUME NEW l \in Listeners, Take(l) PROVE TypeOK'
  <2>1. queued' \in [Listeners -> 0..Cap]
    BY <1>4 DEF TypeOK, Take
  <2> QED
    BY <1>4, <2>1 DEF TypeOK, Take, adapter, history
<1>5. ASSUME NEW l \in Listeners, CancelContext(l) PROVE TypeOK'
  BY <1>5 DEF TypeOK, CancelContext, adapter, history
<1>6. ASSUME NEW l \in Listeners, Listen(l) PROVE TypeOK'
  <2>1. overlapped' \in BOOLEAN
    BY <1>6 DEF Listen
  <2> QED
    BY <1>6, <2>1 DEF TypeOK, Listen, Goto, adapter
<1>7. ASSUME NEW l \in Listeners, ListenerExits(l) PROVE TypeOK'
  BY <1>7 DEF TypeOK, ListenerExits, Goto, adapter, history
<1>8. ASSUME NEW l \in Listeners, PollStarts(l) PROVE TypeOK'
  BY <1>8 DEF TypeOK, PollStarts, Goto, adapter, history
<1>9. ASSUME NEW l \in Listeners, FetchOk(l) PROVE TypeOK'
  <2>1. CASE PollEnds(l)
    BY <1>9, <2>1, PollEndsTypes DEF TypeOK, FetchOk, adapter, history
  <2>2. CASE ~PollEnds(l)
    <3>1. fetched' \in [Listeners -> 0..arrived]
      BY <1>9, <2>2 DEF TypeOK, FetchOk
    <3>2. Between(lastUID[l], arrived) \subseteq 1..arrived
      <4>1. ASSUME NEW u \in Wanted, u <= arrived PROVE u \in 1..arrived
        <5>1. u \in 1..MaxUIDs /\ arrived \in 0..MaxUIDs /\ MaxUIDs \in Nat
          BY DEF TypeOK
        <5> QED
          BY <4>1, <5>1
      <4> QED
        BY <4>1, Zenon DEF Between
    <3>3. batch' \in [Listeners -> SUBSET (1..arrived)]
      BY <1>9, <2>2, <3>2, Zenon DEF TypeOK, FetchOk
    <3> QED
      BY <1>9, <2>2, <3>1, <3>3 DEF TypeOK, FetchOk, Goto, adapter, history
  <2> QED
    BY <2>1, <2>2
<1>10. ASSUME NEW l \in Listeners, FetchFails(l) PROVE TypeOK'
  BY <1>10, PollEndsTypes DEF TypeOK, FetchFails, adapter, history
<1>11. ASSUME NEW l \in Listeners, SendMail(l) PROVE TypeOK'
  <2>1. queued' \in [Listeners -> 0..Cap]
    BY <1>11 DEF TypeOK, SendMail
  <2>2. /\ batch' \in [Listeners -> SUBSET (1..arrived)]
        /\ sent' \in [Listeners -> SUBSET (1..arrived)]
        /\ again' \in [Listeners -> SUBSET (1..arrived)]
    BY <1>11 DEF TypeOK, SendMail
  <2> QED
    BY <1>11, <2>1, <2>2 DEF TypeOK, SendMail, adapter
<1>12. ASSUME NEW l \in Listeners, SendCancelled(l) PROVE TypeOK'
  <2>1. Between(lastUID[l], fetched[l]) \subseteq 1..arrived
    <3>1. ASSUME NEW u \in Wanted, u <= fetched[l] PROVE u \in 1..arrived
      <4>1. /\ u \in 1..MaxUIDs /\ arrived \in 0..MaxUIDs /\ MaxUIDs \in Nat
            /\ fetched[l] \in 0..arrived
        BY DEF TypeOK
      <4> QED
        BY <3>1, <4>1
    <3> QED
      BY <3>1, Zenon DEF Between
  <2>2. cut' \in [Listeners -> SUBSET (1..arrived)]
    BY <1>12, <2>1 DEF TypeOK, SendCancelled, CutShort
  <2> QED
    BY <1>12, <2>2, PollEndsTypes DEF TypeOK, SendCancelled, CutShort, adapter
<1>13. ASSUME NEW l \in Listeners, BatchDone(l) PROVE TypeOK'
  <2>1. lastSeenUID' \in 0..arrived
    BY <1>13 DEF TypeOK, BatchDone
  <2> QED
    BY <1>13, <2>1, PollEndsTypes DEF TypeOK, BatchDone, history
<1>14. CASE UNCHANGED vars
  BY <1>14 DEF TypeOK, vars, adapter, local, history
<1> QED
  BY <1>1, <1>2, <1>3, <1>4, <1>5, <1>6, <1>7, <1>8, <1>9, <1>10, <1>11, <1>12, <1>13, <1>14
  DEF Next, Continue, Terminated

\* The poller's state keeps its types, whatever the listeners do.
THEOREM EmailTyping == Spec => []TypeOK
<1> QED
  BY TypeInit, TypeNext, PTL DEF Spec

------------------------------------------------------------------------------
(* Nothing is lost.                                                        *)

LEMMA InvInit == Init => Inv
  BY BoundsAssumption DEF Init, Inv, NothingLost, InHand, Received

\* The listeners that a step leaves alone keep their messages in hand, if
\* lastSeenUID does not go back and nothing that was sent is forgotten.
LEMMA OthersInHand ==
  ASSUME TypeOK, TypeOK', NEW m \in Listeners, InHand(m),
         lastSeenUID <= lastSeenUID', Received \subseteq Received',
         pc'[m] = pc[m], lastUID'[m] = lastUID[m], fetched'[m] = fetched[m],
         batch'[m] = batch[m]
  PROVE  InHand(m)'
<1>1. lastUID'[m] <= lastSeenUID'
  BY DEF TypeOK, InHand
<1>2. ASSUME pc'[m] = "sending", NEW u \in Wanted, u <= fetched'[m]
      PROVE  u \in Received' \cup batch'[m]
  BY <1>2 DEF InHand
<1> QED
  BY <1>1, <1>2 DEF InHand

\* A listener whose poll has ended holds nothing.
LEMMA EndedInHand ==
  ASSUME TypeOK, TypeOK', NEW l \in Listeners, PollEnds(l)
  PROVE  /\ InHand(l)'
         /\ \A m \in Listeners \ {l} :
              /\ pc'[m] = pc[m] /\ lastUID'[m] = lastUID[m]
              /\ fetched'[m] = fetched[m] /\ batch'[m] = batch[m]
<1>1. lastUID'[l] = 0 /\ batch'[l] = {} /\ pc'[l] = "select"
  BY DEF TypeOK, PollEnds, Goto
<1>2. InHand(l)'
  BY <1>1 DEF TypeOK, InHand
<1>3. \A m \in Listeners \ {l} :
        /\ pc'[m] = pc[m] /\ lastUID'[m] = lastUID[m]
        /\ fetched'[m] = fetched[m] /\ batch'[m] = batch[m]
  BY DEF TypeOK, PollEnds, Goto
<1> QED
  BY <1>2, <1>3

LEMMA InvNext == TypeOK /\ Inv /\ [Next]_vars => Inv'
<1> SUFFICES ASSUME TypeOK, Inv, [Next]_vars PROVE Inv'
  OBVIOUS
<1> USE BoundsAssumption
<1>0. TypeOK'
  BY TypeNext
\* The steps that leave the position and what was sent.
<1>q. ASSUME UNCHANGED <<lastSeenUID, sent>>, \A l \in Listeners : InHand(l)' PROVE Inv'
  BY <1>q DEF Inv, NothingLost, Received
<1>s. ASSUME UNCHANGED <<lastSeenUID, sent>>, UNCHANGED <<lastUID, fetched, batch>>,
             \A l \in Listeners : pc'[l] = "sending" => pc[l] = "sending"
      PROVE  Inv'
  <2>1. ASSUME NEW l \in Listeners PROVE InHand(l)'
    BY <1>s, <2>1 DEF Inv, InHand, Received
  <2> QED
    BY <1>q, <1>s, <2>1
<1>e. ASSUME NEW l \in Listeners, PollEnds(l), UNCHANGED <<lastSeenUID, sent>> PROVE Inv'
  <2>1. lastSeenUID <= lastSeenUID' /\ Received \subseteq Received'
    BY <1>e DEF TypeOK, Received
  <2>2. \A m \in Listeners : InHand(m)'
    BY <1>e, <1>0, <2>1, EndedInHand, OthersInHand DEF Inv
  <2> QED
    BY <1>q, <1>e, <2>2
<1>1. CASE MailArrives
  BY <1>1, <1>s DEF MailArrives, adapter, local, history
<1>2. CASE Connect
  BY <1>2, <1>s DEF Connect, local, history
<1>3. CASE Close
  BY <1>3, <1>s DEF Close, local, history
<1>4. ASSUME NEW l \in Listeners, Take(l) PROVE Inv'
  BY <1>4, <1>s DEF Take, adapter, history
<1>5. ASSUME NEW l \in Listeners, CancelContext(l) PROVE Inv'
  BY <1>5, <1>s DEF CancelContext, adapter, history
<1>6. ASSUME NEW l \in Listeners, Listen(l) PROVE Inv'
  BY <1>6, <1>s DEF TypeOK, Listen, Goto, adapter
<1>7. ASSUME NEW l \in Listeners, ListenerExits(l) PROVE Inv'
  BY <1>7, <1>s DEF TypeOK, ListenerExits, Goto, adapter, history
<1>8. ASSUME NEW l \in Listeners, PollStarts(l) PROVE Inv'
  <2>1. ASSUME NEW m \in Listeners PROVE InHand(m)'
    BY <1>8, <1>0 DEF TypeOK, PollStarts, Goto, adapter, history, Inv, InHand, Received
  <2> QED
    BY <1>8, <1>q, <2>1 DEF PollStarts, adapter, history
<1>9. ASSUME NEW l \in Listeners, FetchOk(l) PROVE Inv'
  <2>1. CASE PollEnds(l)
    BY <1>9, <1>e, <2>1 DEF FetchOk, adapter, history
  <2>2. CASE ~PollEnds(l)
    <3> DEFINE B == {u \in Wanted : lastUID[l] < u /\ u <= arrived}
    <3>1. /\ fetched'[l] = arrived /\ batch'[l] = B /\ lastUID' = lastUID
          /\ UNCHANGED <<arrived, lastSeenUID, sent>>
          /\ \A m \in Listeners \ {l} :
               pc'[m] = pc[m] /\ fetched'[m] = fetched[m] /\ batch'[m] = batch[m]
      BY <1>9, <2>2, Zenon DEF TypeOK, FetchOk, Between, Goto, adapter, history
    <3>2. InHand(l)'
      <4>1. lastUID'[l] <= lastSeenUID'
        BY <3>1 DEF Inv, InHand
      <4>2. ASSUME NEW u \in Wanted, u <= fetched'[l] PROVE u \in Received' \cup batch'[l]
        <5>1. u \in Nat /\ lastUID[l] \in Nat /\ lastSeenUID \in Nat
          BY DEF TypeOK
        <5>2. CASE u <= lastUID[l]
          BY <3>1, <5>1, <5>2 DEF Inv, InHand, NothingLost, Received
        <5>3. CASE lastUID[l] < u
          BY <3>1, <4>2, <5>3
        <5> QED
          BY <5>1, <5>2, <5>3
      <4> QED
        BY <3>1, <4>1, <4>2 DEF InHand
    <3>3. lastSeenUID <= lastSeenUID' /\ Received \subseteq Received'
      BY <3>1 DEF TypeOK, Received
    <3>4. ASSUME NEW m \in Listeners \ {l} PROVE InHand(m)'
      BY <1>0, <3>1, <3>3, OthersInHand DEF Inv
    <3> QED
      BY <1>q, <3>1, <3>2, <3>4
  <2> QED
    BY <2>1, <2>2
<1>10. ASSUME NEW l \in Listeners, FetchFails(l) PROVE Inv'
  BY <1>10, <1>e DEF FetchFails, adapter, history
<1>11. ASSUME NEW l \in Listeners, SendMail(l) PROVE Inv'
  <2>1. PICK u \in batch[l] :
          /\ batch' = [batch EXCEPT ![l] = @ \ {u}]
          /\ sent'  = [sent EXCEPT ![l] = @ \cup {u}]
    BY <1>11 DEF SendMail
  <2>2. Received' = Received \cup {u}
    BY <2>1 DEF TypeOK, Received
  <2>3. UNCHANGED <<lastSeenUID, pc, lastUID, fetched>>
    BY <1>11 DEF SendMail, adapter
  <2>4. ASSUME NEW m \in Listeners PROVE InHand(m)'
    <3>1. batch[m] \subseteq batch'[m] \cup {u} /\ batch'[m] \subseteq batch[m]
      BY <2>1 DEF TypeOK
    <3> QED
      BY <2>2, <2>3, <3>1 DEF Inv, InHand
  <2>5. NothingLost'
    BY <2>2, <2>3 DEF Inv, NothingLost
  <2> QED
    BY <2>4, <2>5 DEF Inv
<1>12. ASSUME NEW l \in Listeners, SendCancelled(l) PROVE Inv'
  BY <1>12, <1>e DEF SendCancelled, CutShort, adapter
<1>13. ASSUME NEW l \in Listeners, BatchDone(l) PROVE Inv'
  <2>1. /\ pc[l] = "sending" /\ batch[l] = {} /\ PollEnds(l) /\ UNCHANGED sent
        /\ lastSeenUID' = IF fetched[l] > lastSeenUID THEN fetched[l] ELSE lastSeenUID
    BY <1>13 DEF BatchDone, history
  <2>2. lastSeenUID <= lastSeenUID' /\ Received \subseteq Received'
    BY <2>1 DEF TypeOK, Received
  <2>3. \A m \in Listeners : InHand(m)'
    BY <1>0, <2>1, <2>2, EndedInHand, OthersInHand DEF Inv
  <2>4. NothingLost'
    <3>1. ASSUME NEW u \in Wanted, u <= fetched[l] PROVE u \in Received'
      BY <2>1, <2>2, <3>1 DEF Inv, InHand
    <3>2. ASSUME NEW u \in Wanted, u <= lastSeenUID PROVE u \in Received'
      BY <2>2, <3>2 DEF Inv, NothingLost
    <3> QED
      BY <2>1, <3>1, <3>2 DEF NothingLost
  <2> QED
    BY <2>3, <2>4 DEF Inv
<1>14. CASE UNCHANGED vars
  BY <1>14, <1>s DEF vars, adapter, local, history
<1> QED
  BY <1>1, <1>2, <1>3, <1>4, <1>5, <1>6, <1>7, <1>8, <1>9, <1>10, <1>11, <1>12, <1>13, <1>14
  DEF Next, Continue, Terminated

\* Every wanted message up to lastSeenUID was sent to some listener, across
\* Close and Connect, cut polls and listeners that poll at the same time.
THEOREM EmailNothingLost == Spec => []NothingLost
<1>1. Spec => [](TypeOK /\ Inv)
  BY TypeInit, TypeNext, InvInit, InvNext, PTL DEF Spec
<1>2. Inv => NothingLost
  BY DEF Inv
<1> QED
  BY <1>1, <1>2, PTL

------------------------------------------------------------------------------
(* The refinement.                                                         *)

LEMMA FeedStep == TypeOK /\ TypeOK' /\ Inv /\ [Next]_vars => [Feed!Next]_(Feed!vars)
<1> SUFFICES ASSUME TypeOK, TypeOK', Inv, [Next]_vars PROVE [Feed!Next]_(Feed!vars)
  OBVIOUS
<1> USE BoundsAssumption
<1>s. ASSUME UNCHANGED <<arrived, lastSeenUID, sent>> PROVE UNCHANGED Feed!vars
  BY <1>s DEF Feed!vars, Received
<1>1. CASE MailArrives
  BY <1>1 DEF MailArrives, adapter, local, history, Received, Feed!Next, Feed!Arrive
<1>2. ASSUME NEW l \in Listeners, SendMail(l) PROVE Feed!Next
  <2>1. PICK u \in batch[l] : sent' = [sent EXCEPT ![l] = @ \cup {u}]
    BY <1>2 DEF SendMail
  <2>2. Received' = Received \cup {u}
    BY <2>1 DEF TypeOK, Received
  <2>3. u \in Wanted /\ u <= arrived
    BY DEF TypeOK, Inv, InHand
  <2>4. UNCHANGED <<arrived, lastSeenUID>>
    BY <1>2 DEF SendMail, adapter
  <2> QED
    BY <2>2, <2>3, <2>4 DEF Feed!Next, Feed!Deliver
<1>3. ASSUME NEW l \in Listeners, BatchDone(l) PROVE [Feed!Next]_(Feed!vars)
  <2>1. /\ pc[l] = "sending" /\ batch[l] = {} /\ UNCHANGED <<arrived, sent>>
        /\ lastSeenUID' = IF fetched[l] > lastSeenUID THEN fetched[l] ELSE lastSeenUID
    BY <1>3 DEF BatchDone, history
  <2>2. CASE fetched[l] > lastSeenUID
    <3>1. fetched[l] \in 1..arrived /\ lastSeenUID < fetched[l] /\ fetched[l] <= arrived
      BY <2>2 DEF TypeOK
    <3>2. \A u \in Wanted : u <= fetched[l] => u \in Received
      BY <2>1 DEF Inv, InHand
    <3>3. UNCHANGED Received
      BY <2>1 DEF Received
    <3>4. Feed!Advance(fetched[l])
      BY <2>1, <2>2, <3>1, <3>2, <3>3 DEF Feed!Advance
    <3> QED
      BY <3>1, <3>4 DEF Feed!Next
  <2>3. CASE ~(fetched[l] > lastSeenUID)
    BY <1>s, <2>1, <2>3
  <2> QED
    BY <2>2, <2>3
<1>4. ASSUME \/ Connect \/ Close \/ UNCHANGED vars
             \/ \E l \in Listeners :
                  \/ Take(l) \/ CancelContext(l) \/ Listen(l) \/ ListenerExits(l)
                  \/ PollStarts(l) \/ FetchOk(l) \/ FetchFails(l) \/ SendCancelled(l)
      PROVE  UNCHANGED <<arrived, lastSeenUID, sent>>
  BY <1>4 DEF Connect, Close, Take, CancelContext, Listen, ListenerExits, PollStarts, FetchOk,
              FetchFails, SendCancelled, CutShort, vars, adapter, local, history
<1> QED
  BY <1>s, <1>1, <1>2, <1>3, <1>4 DEF Next, Continue, Terminated

\* The email adapter implements MessageFeed: delivery at least once, and a
\* position that only moves forward, over what was delivered.
THEOREM EmailImplementsFeed == Spec => ImplementsFeed
<1>1. Init => Feed!Init
  BY DEF Init, Feed!Init, Received
<1>2. Spec => [](TypeOK /\ Inv)
  BY TypeInit, TypeNext, InvInit, InvNext, PTL DEF Spec
<1>3. TypeOK /\ Inv /\ [Next]_vars => [Feed!Next]_(Feed!vars)
  BY TypeNext, FeedStep
<1> QED
  BY <1>1, <1>2, <1>3, PTL DEF Spec, ImplementsFeed, Feed!Spec

------------------------------------------------------------------------------
(* Repetitions.                                                            *)

\* What a listener has sent and will not send again.
Kept(l) == sent[l] \ cut[l]

\* A listener's next poll begins above everything it keeps, and a batch does
\* not hold a message that it keeps.
Fresh(l) ==
  /\ again[l] \subseteq cut[l] /\ sent[l] \subseteq Wanted
  /\ pc[l] \in {"idle", "select", "gone"} => \A u \in Kept(l) : u <= lastSeenUID
  /\ pc[l] = "fetch" => \A u \in Kept(l) : u <= lastUID[l]
  /\ pc[l] = "sending" => \A u \in Kept(l) : u <= fetched[l] /\ u \notin batch[l]
  /\ pc[l] = "sending" => \A u \in batch[l] : lastUID[l] < u /\ u <= fetched[l]

\* So do its polls begin above what m keeps, if listeners do not overlap.
Apart(l, m) ==
  /\ sent[l] \cap sent[m] \subseteq cut[l] \cup cut[m]
  /\ pc[l] \in {"fetch", "sending"} => \A u \in Kept(m) : u <= lastUID[l]

OneRuns == \A l, m \in Listeners : Running(l) /\ Running(m) => l = m

RepeatInv ==
  /\ \A l \in Listeners : Fresh(l)
  /\ ~overlapped => OneRuns /\ \A l, m \in Listeners : l # m => Apart(l, m)

LEMMA RepeatInit == Init => RepeatInv
  BY DEF Init, RepeatInv, Fresh, Kept, Apart, OneRuns, Running

LEMMA RepeatNext == TypeOK /\ Inv /\ RepeatInv /\ [Next]_vars => RepeatInv'
<1> SUFFICES ASSUME TypeOK, Inv, RepeatInv, [Next]_vars PROVE RepeatInv'
  OBVIOUS
<1> USE BoundsAssumption
<1>0. TypeOK'
  BY TypeNext
<1>t. /\ \A l \in Listeners : sent[l] \subseteq Nat /\ batch[l] \subseteq Nat
      /\ \A l \in Listeners : lastUID[l] \in Nat /\ fetched[l] \in Nat
      /\ lastSeenUID \in Nat /\ arrived \in Nat
      /\ \A l \in Listeners : lastUID[l] <= lastSeenUID
      /\ \A l \in Listeners : sent[l] \subseteq 1..arrived
      /\ \A l \in Listeners : batch[l] \subseteq Wanted
  BY DEF TypeOK, Inv, InHand
\* The steps that leave the polls alone.
<1>s. ASSUME UNCHANGED <<lastSeenUID, lastUID, fetched, batch, sent, again, cut, pc, overlapped>>
      PROVE  RepeatInv'
  BY <1>s DEF RepeatInv, Fresh, Kept, Apart, OneRuns, Running
\* The end of a poll after which lastSeenUID is not below what is kept.
<1>e. ASSUME NEW l \in Listeners, Running(l), PollEnds(l),
             UNCHANGED <<sent, again, overlapped>>, cut[l] \subseteq cut'[l],
             \A m \in Listeners \ {l} : cut'[m] = cut[m],
             lastSeenUID <= lastSeenUID', lastSeenUID' \in Nat,
             \A u \in sent[l] \ cut'[l] : u <= lastSeenUID'
      PROVE  RepeatInv'
  <2>1. /\ pc'[l] = "select"
        /\ \A m \in Listeners \ {l} : /\ pc'[m] = pc[m] /\ lastUID'[m] = lastUID[m]
                                      /\ fetched'[m] = fetched[m] /\ batch'[m] = batch[m]
    BY <1>e DEF TypeOK, PollEnds, Goto
  <2>2. UNCHANGED <<sent, again, overlapped>> /\ \A m \in Listeners : cut[m] \subseteq cut'[m]
    BY <1>e
  <2>3. Fresh(l)'
    BY <1>e, <2>1, <2>2 DEF RepeatInv, Fresh, Kept
  <2>4. ASSUME NEW m \in Listeners \ {l} PROVE Fresh(m)'
    <3>1. ASSUME pc[m] \in {"idle", "select", "gone"} PROVE \A u \in Kept(m) : u <= lastSeenUID'
      BY <1>e, <1>t, <3>1 DEF RepeatInv, Fresh, Kept
    <3>2. cut'[m] = cut[m]
      BY <1>e
    <3> QED
      BY <2>1, <2>2, <3>1, <3>2 DEF RepeatInv, Fresh, Kept
  <2>5. ~overlapped' => OneRuns'
    BY <1>e, <2>1, <2>2 DEF RepeatInv, OneRuns, Running
  <2>6. ASSUME ~overlapped', NEW k \in Listeners, NEW m \in Listeners, k # m
        PROVE  Apart(k, m)'
    BY <2>1, <2>2, <2>6 DEF RepeatInv, Apart, Kept
  <2> QED
    BY <2>1, <2>3, <2>4, <2>5, <2>6 DEF RepeatInv
<1>1. CASE MailArrives
  BY <1>1, <1>s DEF MailArrives, adapter, local, history
<1>2. CASE Connect \/ Close \/ UNCHANGED vars
  BY <1>2, <1>s DEF Connect, Close, vars, adapter, local, history
<1>3. ASSUME NEW l \in Listeners, Take(l) \/ CancelContext(l) PROVE RepeatInv'
  BY <1>3, <1>s DEF Take, CancelContext, adapter, history
<1>4. ASSUME NEW l \in Listeners, Listen(l) PROVE RepeatInv'
  <2>1. /\ UNCHANGED <<lastSeenUID, lastUID, fetched, batch, sent, again, cut>>
        /\ pc[l] = "idle" /\ pc'[l] = "select"
        /\ \A m \in Listeners \ {l} : pc'[m] = pc[m]
        /\ overlapped' = (overlapped \/ \E m \in Listeners : Running(m))
    BY <1>4 DEF TypeOK, Listen, Goto, adapter
  <2>2. ~overlapped' => ~overlapped /\ OneRuns'
    BY <2>1 DEF OneRuns, Running
  <2>3. \A m \in Listeners : Fresh(m)'
    BY <2>1 DEF RepeatInv, Fresh, Kept
  <2>4. ASSUME ~overlapped', NEW k \in Listeners, NEW m \in Listeners, k # m
        PROVE  Apart(k, m)'
    BY <2>1, <2>2, <2>4 DEF RepeatInv, Apart, Kept
  <2> QED
    BY <2>1, <2>2, <2>3, <2>4 DEF RepeatInv
<1>5. ASSUME NEW l \in Listeners, ListenerExits(l) PROVE RepeatInv'
  <2>1. /\ UNCHANGED <<lastSeenUID, lastUID, fetched, batch, sent, again, cut, overlapped>>
        /\ pc[l] = "select" /\ pc'[l] = "gone"
        /\ \A m \in Listeners \ {l} : pc'[m] = pc[m]
    BY <1>5 DEF TypeOK, ListenerExits, Goto, adapter, history
  <2>2. \A m \in Listeners : Fresh(m)'
    BY <2>1 DEF RepeatInv, Fresh, Kept
  <2>3. OneRuns => OneRuns'
    BY <2>1 DEF OneRuns, Running
  <2>4. ASSUME ~overlapped', NEW k \in Listeners, NEW m \in Listeners, k # m
        PROVE  Apart(k, m)'
    BY <2>1, <2>4 DEF RepeatInv, Apart, Kept
  <2> QED
    BY <2>1, <2>2, <2>3, <2>4 DEF RepeatInv
<1>6. ASSUME NEW l \in Listeners, PollStarts(l) PROVE RepeatInv'
  <2>1. /\ UNCHANGED <<lastSeenUID, fetched, batch, sent, again, cut, overlapped>>
        /\ pc[l] = "select" /\ pc'[l] = "fetch" /\ lastUID'[l] = lastSeenUID
        /\ \A m \in Listeners \ {l} : pc'[m] = pc[m] /\ lastUID'[m] = lastUID[m]
    BY <1>6 DEF TypeOK, PollStarts, Goto, adapter, history
  <2>2. \A m \in Listeners : Fresh(m)'
    BY <2>1 DEF RepeatInv, Fresh, Kept
  <2>3. OneRuns => OneRuns'
    BY <2>1 DEF OneRuns, Running
  <2>4. ASSUME ~overlapped, NEW m \in Listeners \ {l} PROVE \A u \in Kept(m) : u <= lastSeenUID
    <3>1. ~Running(m)
      BY <2>1, <2>4 DEF RepeatInv, OneRuns, Running
    <3>2. pc[m] \in {"idle", "gone"}
      BY <3>1 DEF Running
    <3> QED
      BY <2>4, <3>2 DEF RepeatInv, Fresh
  <2>5. ASSUME ~overlapped', NEW k \in Listeners, NEW m \in Listeners, k # m
        PROVE  Apart(k, m)'
    BY <2>1, <2>4, <2>5 DEF RepeatInv, Apart, Kept
  <2> QED
    BY <2>1, <2>2, <2>3, <2>5 DEF RepeatInv
<1>7. ASSUME NEW l \in Listeners, FetchOk(l) PROVE RepeatInv'
  <2>0. /\ pc[l] = "fetch" /\ UNCHANGED <<arrived, lastSeenUID, sent, again, cut, overlapped>>
        /\ \A u \in sent[l] \ cut[l] : u <= lastUID[l]
    BY <1>7 DEF FetchOk, adapter, history, RepeatInv, Fresh, Kept
  <2>1. CASE PollEnds(l)
    <3>1. \A u \in sent[l] \ cut'[l] : u <= lastSeenUID'
      BY <1>t, <2>0
    <3> QED
      BY <1>e, <1>t, <2>0, <2>1, <3>1 DEF Running
  <2>2. CASE ~PollEnds(l)
    <3> DEFINE B == Between(lastUID[l], arrived)
    <3>1. /\ fetched'[l] = arrived /\ batch'[l] = B /\ lastUID' = lastUID /\ pc'[l] = "sending"
          /\ \A m \in Listeners \ {l} :
               pc'[m] = pc[m] /\ fetched'[m] = fetched[m] /\ batch'[m] = batch[m]
      BY <1>7, <2>2, Zenon DEF TypeOK, FetchOk, Goto, adapter
    <3>2. \A u \in B : lastUID[l] < u /\ u <= arrived
      BY DEF Between
    <3>3. ASSUME NEW u \in sent[l] \ cut[l] PROVE u <= arrived /\ u \notin B
      <4>1. u \in 1..arrived /\ u <= lastUID[l] /\ lastUID[l] \in Nat /\ u \in Nat
        BY <1>t, <2>0
      <4> QED
        BY <1>t, <3>2, <4>1
    <3> HIDE DEF B
    <3>4. Fresh(l)'
      BY <2>0, <3>1, <3>2, <3>3 DEF RepeatInv, Fresh, Kept
    <3>5. ASSUME NEW m \in Listeners \ {l} PROVE Fresh(m)'
      BY <2>0, <3>1 DEF RepeatInv, Fresh, Kept
    <3>6. OneRuns => OneRuns'
      BY <2>0, <3>1 DEF OneRuns, Running
    <3>7. ASSUME ~overlapped', NEW k \in Listeners, NEW m \in Listeners, k # m
          PROVE  Apart(k, m)'
      BY <2>0, <3>1, <3>7 DEF RepeatInv, Apart, Kept
    <3> QED
      BY <2>0, <3>4, <3>5, <3>6, <3>7 DEF RepeatInv
  <2> QED
    BY <2>1, <2>2
<1>8. ASSUME NEW l \in Listeners, FetchFails(l) PROVE RepeatInv'
  <2>1. /\ pc[l] = "fetch" /\ PollEnds(l) /\ UNCHANGED <<lastSeenUID, sent, again, cut, overlapped>>
        /\ \A u \in sent[l] \ cut[l] : u <= lastUID[l]
    BY <1>8 DEF FetchFails, adapter, history, RepeatInv, Fresh, Kept
  <2>2. \A u \in sent[l] \ cut'[l] : u <= lastSeenUID'
    BY <1>t, <2>1
  <2> QED
    BY <1>e, <1>t, <2>1, <2>2 DEF Running
<1>9. ASSUME NEW l \in Listeners, SendMail(l) PROVE RepeatInv'
  <2>1. PICK u \in batch[l] :
          /\ batch' = [batch EXCEPT ![l] = @ \ {u}]
          /\ sent'  = [sent EXCEPT ![l] = @ \cup {u}]
          /\ again' = [again EXCEPT ![l] = IF u \in sent[l] THEN @ \cup {u} ELSE @]
    BY <1>9 DEF SendMail
  <2>2. /\ batch'[l] = batch[l] \ {u} /\ sent'[l] = sent[l] \cup {u}
        /\ again'[l] = IF u \in sent[l] THEN again[l] \cup {u} ELSE again[l]
        /\ \A m \in Listeners \ {l} :
             batch'[m] = batch[m] /\ sent'[m] = sent[m] /\ again'[m] = again[m]
    BY <2>1 DEF TypeOK
  <2>3. pc[l] = "sending" /\ UNCHANGED <<lastSeenUID, pc, lastUID, fetched, cut, overlapped>>
    BY <1>9 DEF SendMail, adapter
  <2>4. u <= fetched[l] /\ lastUID[l] < u /\ u \in Wanted /\ u \in Nat
    BY <1>t, <2>3 DEF RepeatInv, Fresh
  <2>5. Fresh(l)'
    <3>1. u \in sent[l] => u \in cut[l]
      BY <2>3 DEF RepeatInv, Fresh, Kept
    <3>2. again'[l] \subseteq cut'[l] /\ sent'[l] \subseteq Wanted
      BY <2>2, <2>3, <2>4, <3>1 DEF RepeatInv, Fresh
    <3> QED
      BY <2>2, <2>3, <2>4, <3>2 DEF RepeatInv, Fresh, Kept
  <2>6. ASSUME NEW m \in Listeners \ {l} PROVE Fresh(m)'
    BY <2>2, <2>3 DEF RepeatInv, Fresh, Kept
  <2>7. ASSUME ~overlapped, NEW m \in Listeners \ {l}
        PROVE  /\ pc[m] \notin {"fetch", "sending"}
               /\ u \in sent[m] => u \in cut[m]
    <3>1. pc[m] \notin {"fetch", "sending"}
      BY <2>3, <2>7 DEF RepeatInv, OneRuns, Running
    <3>2. \A v \in Kept(m) : v <= lastUID[l]
      BY <2>3, <2>7 DEF RepeatInv, Apart
    <3>3. u \notin Kept(m)
      BY <1>t, <2>4, <3>2
    <3> QED
      BY <3>1, <3>3 DEF Kept
  <2>8. ASSUME ~overlapped', NEW k \in Listeners, NEW m \in Listeners, k # m
        PROVE  Apart(k, m)'
    <3>1. Apart(k, m) /\ ~overlapped
      BY <2>3, <2>8 DEF RepeatInv
    <3>2. CASE k = l
      BY <2>2, <2>3, <2>7, <2>8, <3>1, <3>2 DEF Apart, Kept
    <3>3. CASE m = l
      BY <2>2, <2>3, <2>7, <2>8, <3>1, <3>3 DEF Apart, Kept
    <3>4. CASE k # l /\ m # l
      BY <2>2, <2>3, <2>8, <3>1, <3>4 DEF Apart, Kept
    <3> QED
      BY <3>2, <3>3, <3>4
  <2>9. OneRuns => OneRuns'
    BY <2>3 DEF OneRuns, Running
  <2> QED
    BY <2>3, <2>5, <2>6, <2>8, <2>9 DEF RepeatInv
<1>10. ASSUME NEW l \in Listeners, SendCancelled(l) PROVE RepeatInv'
  <2>1. /\ pc[l] = "sending" /\ PollEnds(l) /\ UNCHANGED <<lastSeenUID, sent, again, overlapped>>
        /\ cut'[l] = cut[l] \cup (Between(lastUID[l], fetched[l]) \ batch[l])
        /\ \A m \in Listeners \ {l} : cut'[m] = cut[m]
    BY <1>10 DEF TypeOK, SendCancelled, CutShort, adapter
  <2>2. ASSUME NEW u \in sent[l] \ cut'[l] PROVE u <= lastSeenUID'
    <3>1. u \in Wanted /\ u <= fetched[l] /\ u \notin batch[l]
      BY <2>1, <2>2 DEF RepeatInv, Fresh, Kept
    <3>2. ~(lastUID[l] < u)
      BY <2>1, <2>2, <3>1 DEF Between
    <3>3. u \in Nat /\ lastUID[l] \in Nat /\ lastSeenUID \in Nat /\ lastUID[l] <= lastSeenUID
      BY <1>t, <2>2
    <3> QED
      BY <2>1, <3>2, <3>3
  <2>3. lastSeenUID <= lastSeenUID' /\ lastSeenUID' \in Nat /\ cut[l] \subseteq cut'[l]
    BY <1>t, <2>1
  <2> QED
    BY <1>e, <2>1, <2>2, <2>3 DEF Running
<1>11. ASSUME NEW l \in Listeners, BatchDone(l) PROVE RepeatInv'
  <2>1. /\ pc[l] = "sending" /\ PollEnds(l) /\ UNCHANGED <<sent, again, cut, overlapped>>
        /\ lastSeenUID' = IF fetched[l] > lastSeenUID THEN fetched[l] ELSE lastSeenUID
    BY <1>11 DEF BatchDone, history
  <2>2. lastSeenUID <= lastSeenUID' /\ fetched[l] <= lastSeenUID' /\ lastSeenUID' \in Nat
    BY <1>t, <2>1
  <2>3. \A u \in sent[l] \ cut[l] : u <= fetched[l]
    BY <2>1 DEF RepeatInv, Fresh, Kept
  <2>4. \A u \in sent[l] \ cut'[l] : u <= lastSeenUID'
    BY <1>t, <2>1, <2>2, <2>3
  <2> QED
    BY <1>e, <2>1, <2>2, <2>4 DEF Running
<1> QED
  BY <1>1, <1>2, <1>3, <1>4, <1>5, <1>6, <1>7, <1>8, <1>9, <1>10, <1>11
  DEF Next, Continue, Terminated

\* A channel repeats only messages of a batch of its own that its context cut
\* short, and of listeners that did not overlap the second sends nothing of
\* the first's but what such a cut had sent.
THEOREM EmailRepeatsHaveCause == Spec => []RepeatsHaveCause
<1>1. Spec => [](TypeOK /\ Inv /\ RepeatInv)
  BY TypeInit, TypeNext, InvInit, InvNext, RepeatInit, RepeatNext, PTL DEF Spec
<1>2. RepeatInv => RepeatsHaveCause
  BY DEF RepeatInv, RepeatsHaveCause, Fresh, Apart
<1> QED
  BY <1>1, <1>2, PTL
==============================================================================
