----------------------------- MODULE EmailPoller -----------------------------
(***************************************************************************)
(* messaging/email_adapter.go: Connect, Listen, Close and the polling      *)
(* goroutine that each Listen starts.                                      *)
(*                                                                         *)
(* A listener is one invocation of Listen with its context, its goroutine  *)
(* and its channel.  The mailbox is a number of messages, known by their   *)
(* UIDs; a message is wanted when it is not empty and its sender is        *)
(* allowed.  The fetcher is outside: the source has an interface and a     *)
(* stub that always fails.  As the tests use it, it answers with all the   *)
(* messages above a UID, here in any order, or with an error.              *)
(*                                                                         *)
(* Left out: the contents of the events, and Send and ListChannels, which  *)
(* change nothing in the adapter.                                          *)
(***************************************************************************)
EXTENDS Naturals

CONSTANTS Listeners,
          Cap,        \* capacity of a listener's channel: 100 in the code
          MaxUIDs,    \* bound: messages that ever arrive
          Wanted      \* the messages that the filters keep

ASSUME BoundsAssumption ==
  Cap \in Nat \ {0} /\ MaxUIDs \in Nat /\ Wanted \subseteq 1..MaxUIDs

VARIABLES
  arrived,      \* the mailbox holds 1..arrived
  \* the fields of EmailAdapter
  connected,
  lastSeenUID,
  stopped,      \* e.stopChan has been closed
  \* the listeners
  pc,           \* where each goroutine is
  lastUID,      \* a poll's copy of lastSeenUID
  fetched,      \* the highest UID it was given
  batch,        \* the wanted messages it has still to send
  queued,       \* events in its channel
  ctxDone,      \* its context is done
  \* history
  sent,         \* the messages sent to its channel
  again,        \* those sent to it more than once
  cut,          \* those sent to it in a batch that its context then cut short
  overlapped    \* a Listen was called while another's goroutine ran

adapter == <<connected, lastSeenUID, stopped>>
local   == <<pc, lastUID, fetched, batch, queued, ctxDone>>
history == <<sent, again, cut, overlapped>>
vars    == <<arrived, adapter, local, history>>

UIDs == 1..MaxUIDs

TypeOK ==
  /\ arrived \in 0..MaxUIDs
  /\ connected \in BOOLEAN /\ stopped \in BOOLEAN /\ overlapped \in BOOLEAN
  /\ lastSeenUID \in 0..arrived
  /\ pc \in [Listeners -> {"idle", "select", "fetch", "sending", "gone"}]
  /\ lastUID \in [Listeners -> 0..arrived] /\ fetched \in [Listeners -> 0..arrived]
  /\ batch \in [Listeners -> SUBSET (1..arrived)]
  /\ queued \in [Listeners -> 0..Cap]
  /\ ctxDone \in [Listeners -> BOOLEAN]
  /\ sent \in [Listeners -> SUBSET (1..arrived)]
  /\ again \in [Listeners -> SUBSET (1..arrived)]
  /\ cut \in [Listeners -> SUBSET (1..arrived)]

------------------------------------------------------------------------------
Init ==
  /\ arrived = 0
  /\ connected = FALSE /\ lastSeenUID = 0 /\ stopped = FALSE
  /\ pc      = [l \in Listeners |-> "idle"]
  /\ lastUID = [l \in Listeners |-> 0]
  /\ fetched = [l \in Listeners |-> 0]
  /\ batch   = [l \in Listeners |-> {}]
  /\ queued  = [l \in Listeners |-> 0]
  /\ ctxDone = [l \in Listeners |-> FALSE]
  /\ sent    = [l \in Listeners |-> {}]
  /\ again   = [l \in Listeners |-> {}]
  /\ cut     = [l \in Listeners |-> {}]
  /\ overlapped = FALSE

Goto(l, place) == pc' = [pc EXCEPT ![l] = place]
Running(l)     == pc[l] \notin {"idle", "gone"}

------------------------------------------------------------------------------
(* The outside.                                                            *)

MailArrives ==
  /\ arrived < MaxUIDs
  /\ arrived' = arrived + 1
  /\ UNCHANGED <<adapter, local, history>>

\* The reader of the channel takes an event.
Take(l) ==
  /\ queued[l] > 0
  /\ queued' = [queued EXCEPT ![l] = @ - 1]
  /\ UNCHANGED <<arrived, adapter, pc, lastUID, fetched, batch, ctxDone, history>>

CancelContext(l) ==
  /\ ~ctxDone[l] /\ pc[l] # "idle"
  /\ ctxDone' = [ctxDone EXCEPT ![l] = TRUE]
  /\ UNCHANGED <<arrived, adapter, pc, lastUID, fetched, batch, queued, history>>

------------------------------------------------------------------------------
(* The adapter's operations.                                               *)

\* lastSeenUID keeps its value: a Connect after a Close goes on from there.
Connect ==
  /\ ~connected
  /\ connected' = TRUE
  /\ UNCHANGED <<arrived, lastSeenUID, stopped, local, history>>

\* e.stopChan is closed once and never made again.
Close ==
  /\ connected
  /\ connected' = FALSE
  /\ stopped' = TRUE
  /\ UNCHANGED <<arrived, lastSeenUID, local, history>>

\* The check of e.connected, without the lock; a Listen that finds it FALSE
\* is refused.
Listen(l) ==
  /\ pc[l] = "idle" /\ connected
  /\ Goto(l, "select")
  /\ overlapped' = (overlapped \/ \E m \in Listeners : Running(m))
  /\ UNCHANGED <<arrived, adapter, lastUID, fetched, batch, queued, ctxDone, sent, again, cut>>

------------------------------------------------------------------------------
(* The polling goroutine.  Its select chooses at random among the cases    *)
(* that are ready; a tick may be pending at any time.                      *)

ListenerExits(l) ==
  /\ pc[l] = "select" /\ (ctxDone[l] \/ stopped)
  /\ Goto(l, "gone")
  /\ UNCHANGED <<arrived, adapter, lastUID, fetched, batch, queued, ctxDone, history>>

PollStarts(l) ==
  /\ pc[l] = "select"
  /\ lastUID' = [lastUID EXCEPT ![l] = lastSeenUID]
  /\ Goto(l, "fetch")
  /\ UNCHANGED <<arrived, adapter, fetched, batch, queued, ctxDone, history>>

\* pollOnce returns and its locals are gone.
PollEnds(l) ==
  /\ Goto(l, "select")
  /\ lastUID' = [lastUID EXCEPT ![l] = 0]
  /\ fetched' = [fetched EXCEPT ![l] = 0]
  /\ batch'   = [batch EXCEPT ![l] = {}]

\* The wanted messages that a poll from n finds when the last UID is m.
Between(n, m) == {u \in Wanted : n < u /\ u <= m}

\* FetchNewMessages answers; without a new message the poll is over.
FetchOk(l) ==
  /\ pc[l] = "fetch"
  /\ \/ arrived <= lastUID[l] /\ PollEnds(l)
     \/ /\ arrived > lastUID[l]
        /\ fetched' = [fetched EXCEPT ![l] = arrived]
        /\ batch'   = [batch EXCEPT ![l] = Between(lastUID[l], arrived)]
        /\ Goto(l, "sending")
        /\ UNCHANGED lastUID
  /\ UNCHANGED <<arrived, adapter, queued, ctxDone, history>>

FetchFails(l) ==
  /\ pc[l] = "fetch"
  /\ PollEnds(l)
  /\ UNCHANGED <<arrived, adapter, queued, ctxDone, history>>

\* The next message of the batch goes to the channel.
SendMail(l) ==
  /\ pc[l] = "sending" /\ queued[l] < Cap
  /\ \E u \in batch[l] :
       /\ batch' = [batch EXCEPT ![l] = @ \ {u}]
       /\ sent'  = [sent EXCEPT ![l] = @ \cup {u}]
       /\ again' = [again EXCEPT ![l] = IF u \in sent[l] THEN @ \cup {u} ELSE @]
  /\ queued' = [queued EXCEPT ![l] = @ + 1]
  /\ UNCHANGED <<arrived, adapter, pc, lastUID, fetched, ctxDone, cut, overlapped>>

\* History: the messages that the poll has sent will be sent again.
CutShort(l) ==
  /\ cut' = [cut EXCEPT ![l] = @ \cup (Between(lastUID[l], fetched[l]) \ batch[l])]
  /\ UNCHANGED <<sent, again, overlapped>>

\* Mutated: a poll cut short by its context still moves lastSeenUID.
CutPollAdvances(l) ==
  /\ pc[l] = "sending" /\ batch[l] # {} /\ ctxDone[l]
  /\ lastSeenUID' = IF fetched[l] > lastSeenUID THEN fetched[l] ELSE lastSeenUID
  /\ PollEnds(l) /\ CutShort(l)
  /\ UNCHANGED <<arrived, connected, stopped, queued, ctxDone>>

\* The context is done while the next event waits for room; with room the
\* select may choose either.  lastSeenUID stays where it is, although a part
\* of the batch was sent.
SendCancelled(l) ==
  /\ pc[l] = "sending" /\ batch[l] # {} /\ ctxDone[l]
  /\ PollEnds(l) /\ CutShort(l)
  /\ UNCHANGED <<arrived, adapter, queued, ctxDone>>

\* Mutated: lastSeenUID is overwritten whatever it is by now.
BatchOverwrites(l) ==
  /\ pc[l] = "sending" /\ batch[l] = {}
  /\ lastSeenUID' = fetched[l]
  /\ PollEnds(l)
  /\ UNCHANGED <<arrived, connected, stopped, queued, ctxDone, history>>

\* Mutated: the position is taken for the next UID.
BatchSkipsOne(l) ==
  /\ pc[l] = "sending" /\ batch[l] = {}
  /\ lastSeenUID' = fetched[l] + 1
  /\ PollEnds(l)
  /\ UNCHANGED <<arrived, connected, stopped, queued, ctxDone, history>>

\* Mutated: lastSeenUID is never moved.
BatchForgotten(l) ==
  /\ pc[l] = "sending" /\ batch[l] = {}
  /\ PollEnds(l)
  /\ UNCHANGED <<arrived, adapter, queued, ctxDone, history>>

\* Second critical section of pollOnce: the highest UID fetched, wanted or
\* not, unless another listener is ahead.
BatchDone(l) ==
  /\ pc[l] = "sending" /\ batch[l] = {}
  /\ lastSeenUID' = IF fetched[l] > lastSeenUID THEN fetched[l] ELSE lastSeenUID
  /\ PollEnds(l)
  /\ UNCHANGED <<arrived, connected, stopped, queued, ctxDone, history>>

------------------------------------------------------------------------------
\* The steps a poll under way takes by itself.
Continue(l) ==
  FetchOk(l) \/ FetchFails(l) \/ SendMail(l) \/ SendCancelled(l) \/ BatchDone(l)

\* No goroutine runs: the program may stop.
Terminated ==
  /\ \A l \in Listeners : ~Running(l)
  /\ UNCHANGED vars

Next ==
  \/ MailArrives \/ Connect \/ Close \/ Terminated
  \/ \E l \in Listeners :
       \/ Take(l) \/ CancelContext(l) \/ Listen(l)
       \/ ListenerExits(l) \/ PollStarts(l) \/ Continue(l)

Spec == Init /\ [][Next]_vars

\* Goroutines run, and a select that finds its stop case ready again and
\* again does not pick the ticker every time.  Nothing is assumed of the
\* reader of the channel.
Fairness ==
  \A l \in Listeners : WF_vars(Continue(l)) /\ SF_vars(ListenerExits(l))

FairSpec == Spec /\ Fairness

------------------------------------------------------------------------------
(* Properties.                                                             *)

Received == UNION {sent[l] : l \in Listeners}

\* No wanted message is lost, across Close and Connect, cancelled contexts,
\* failed fetches and listeners that poll at the same time: below lastSeenUID
\* every one was sent to some listener.
NothingLost == \A u \in Wanted : u <= lastSeenUID => u \in Received

\* A message is repeated only when a context ended in the middle of a batch
\* that had sent it: a channel repeats a message only after such a cut of its
\* own, and of two listeners that did not overlap the second sends nothing
\* of the first's but what a cut had sent.  A context that ends at another
\* time causes no repetition.
RepeatsHaveCause ==
  /\ \A l \in Listeners : again[l] \subseteq cut[l]
  /\ \A l, m \in Listeners :
       ~overlapped /\ l # m => sent[l] \cap sent[m] \subseteq cut[l] \cup cut[m]

Feed == INSTANCE MessageFeed WITH delivered <- Received, position <- lastSeenUID

\* The adapter is a feed: it delivers at least once and its position moves
\* only forward, over what was delivered.
ImplementsFeed == Feed!Spec

\* If the fetcher answers again and again, every wanted message that has
\* arrived is delivered in the end.
ArrivedIsDelivered ==
  []<><<\E l \in Listeners : FetchOk(l)>>_vars
    => []<>(\A u \in Wanted : u <= arrived => u \in Received)

\* A listener ends when its context is done, although nobody may read its
\* channel and polls may take turns for ever.
CancelStops == []<>(\A l \in Listeners : Running(l) => ~ctxDone[l])
==============================================================================
