---------------------------- MODULE IMessagePoller ---------------------------
(***************************************************************************)
(* messaging/imessage_adapter.go: Connect, Listen, Close and the polling   *)
(* goroutine that each Listen starts.                                      *)
(*                                                                         *)
(* A listener is one invocation of Listen with its context, its goroutine  *)
(* and its channel.  The Messages database is a number of rows, added by   *)
(* the outside; a row is wanted when the query and the recipient filter    *)
(* keep it.  Connections to the database are numbered; db of the code is   *)
(* the connection "opened" while connected, and a query over any other     *)
(* fails.                                                                  *)
(*                                                                         *)
(* Left out: the contents of the events, and Send and ListChannels, which  *)
(* change nothing in the adapter.                                          *)
(***************************************************************************)
EXTENDS Naturals, Sequences

CONSTANTS Listeners,
          Cap,          \* capacity of a listener's channel: 100 in the code
          MaxRows,      \* bound: rows that are ever in the database
          Wanted,       \* the rows that the query and the filter keep
          MaxConnects   \* bound: successful Connects

ASSUME BoundsAssumption ==
  /\ Cap \in Nat \ {0} /\ MaxRows \in Nat /\ MaxConnects \in Nat
  /\ Wanted \subseteq 1..MaxRows

VARIABLES
  rows,             \* the database: its rows are 1..rows
  \* the fields of IMessageAdapter
  connected,
  lastROWID,
  opened,           \* the database connection of a.querier
  stopped,          \* a.stopPolling has been closed
  \* the listeners
  pc,               \* where each goroutine is
  since, over,      \* a poll's copies of lastROWID and querier
  batch,            \* wanted rows of the query that are still to be sent
  queued,           \* events in its channel
  ctxDone,          \* its context is done
  \* history
  sent,             \* the rows sent to its channel, in order
  unread,           \* rows a query failed to read before one that it read
  base,             \* rows that were there at the latest Connect
  fellBack,         \* a Connect could not read the last row and assumed 0
  overlapped        \* a Listen was called while another's goroutine ran

adapter  == <<connected, lastROWID, opened, stopped>>
local    == <<pc, since, over, batch, queued, ctxDone>>
history  == <<sent, unread, base, fellBack, overlapped>>
vars     == <<rows, adapter, local, history>>

TypeOK ==
  /\ rows \in 0..MaxRows
  /\ connected \in BOOLEAN /\ stopped \in BOOLEAN
  /\ lastROWID \in 0..rows /\ opened \in 0..MaxConnects /\ base \in 0..rows
  /\ pc \in [Listeners -> {"idle", "select", "query", "sending", "marking", "gone"}]
  /\ since \in [Listeners -> 0..rows] /\ over \in [Listeners -> 0..MaxConnects]
  /\ batch \in [Listeners -> SUBSET (1..rows)]
  /\ queued \in [Listeners -> 0..Cap]
  /\ ctxDone \in [Listeners -> BOOLEAN]
  /\ sent \in [Listeners -> Seq(1..rows)] /\ unread \subseteq 1..rows
  /\ fellBack \in BOOLEAN /\ overlapped \in BOOLEAN

------------------------------------------------------------------------------
Init ==
  /\ rows = 0
  /\ connected = FALSE /\ lastROWID = 0 /\ opened = 0 /\ stopped = FALSE
  /\ pc      = [l \in Listeners |-> "idle"]
  /\ since   = [l \in Listeners |-> 0]
  /\ over    = [l \in Listeners |-> 0]
  /\ batch   = [l \in Listeners |-> {}]
  /\ queued  = [l \in Listeners |-> 0]
  /\ ctxDone = [l \in Listeners |-> FALSE]
  /\ sent    = [l \in Listeners |-> <<>>]
  /\ unread = {} /\ base = 0 /\ fellBack = FALSE /\ overlapped = FALSE

Goto(l, place) == pc' = [pc EXCEPT ![l] = place]
Running(l)     == pc[l] \notin {"idle", "gone"}

------------------------------------------------------------------------------
(* The outside.                                                            *)

RowArrives ==
  /\ rows < MaxRows
  /\ rows' = rows + 1
  /\ UNCHANGED <<adapter, local, history>>

\* The reader of the channel takes an event.
Take(l) ==
  /\ queued[l] > 0
  /\ queued' = [queued EXCEPT ![l] = @ - 1]
  /\ UNCHANGED <<rows, adapter, pc, since, over, batch, ctxDone, history>>

CancelContext(l) ==
  /\ ~ctxDone[l] /\ pc[l] # "idle"
  /\ ctxDone' = [ctxDone EXCEPT ![l] = TRUE]
  /\ UNCHANGED <<rows, adapter, pc, since, over, batch, queued, history>>

------------------------------------------------------------------------------
(* The adapter's operations, each in one critical section of a.mu.         *)

\* A Connect that fails, or finds the adapter connected, changes nothing.
\* When the last row cannot be read, polling starts from row 0.
Connect ==
  /\ ~connected /\ opened < MaxConnects
  /\ connected' = TRUE
  /\ opened' = opened + 1
  /\ \/ lastROWID' = rows /\ UNCHANGED fellBack
     \/ lastROWID' = 0 /\ fellBack' = TRUE
  /\ base' = rows
  /\ UNCHANGED <<rows, stopped, local, sent, unread, overlapped>>

\* a.stopPolling is closed once and never made again.
Close ==
  /\ connected
  /\ connected' = FALSE
  /\ stopped' = TRUE
  /\ UNCHANGED <<rows, lastROWID, opened, local, history>>

\* A Listen without a connection is refused.
Listen(l) ==
  /\ pc[l] = "idle" /\ connected
  /\ Goto(l, "select")
  /\ overlapped' = (overlapped \/ \E m \in Listeners : Running(m))
  /\ UNCHANGED <<rows, adapter, since, over, batch, queued, ctxDone, sent, unread, base,
                 fellBack>>

------------------------------------------------------------------------------
(* The polling goroutine.  Its select chooses at random among the cases    *)
(* that are ready; a tick may be pending at any time.                      *)

\* Mutated: the loop does not look at stopPolling.
ListenerIgnoresStop(l) ==
  /\ pc[l] = "select" /\ ctxDone[l]
  /\ Goto(l, "gone")
  /\ UNCHANGED <<rows, adapter, since, over, batch, queued, ctxDone, history>>

ListenerExits(l) ==
  /\ pc[l] = "select" /\ (ctxDone[l] \/ stopped)
  /\ Goto(l, "gone")
  /\ UNCHANGED <<rows, adapter, since, over, batch, queued, ctxDone, history>>

PollStarts(l) ==
  /\ pc[l] = "select"
  /\ since' = [since EXCEPT ![l] = lastROWID]
  /\ over'  = [over EXCEPT ![l] = opened]
  /\ Goto(l, "query")
  /\ UNCHANGED <<rows, adapter, batch, queued, ctxDone, history>>

\* The poll goes on with the rows in rest, or returns and its locals are gone.
Resume(l, rest) ==
  /\ batch' = [batch EXCEPT ![l] = rest]
  /\ Goto(l, IF rest = {} THEN "select" ELSE "sending")
  /\ since' = [since EXCEPT ![l] = IF rest = {} THEN 0 ELSE @]
  /\ over'  = [over EXCEPT ![l] = IF rest = {} THEN 0 ELSE @]

\* The wanted rows that the query is after.
Due(l) == {r \in Wanted : since[l] < r /\ r <= rows}

\* The query gives rows and no error: not always all of them, since a row whose
\* Scan fails is left out, and an iteration that breaks off is not noticed.
QueryOk(l) ==
  /\ pc[l] = "query" /\ connected /\ over[l] = opened
  /\ \E read \in SUBSET Due(l) :
       /\ Resume(l, read)
       /\ unread' = unread \cup {r \in Due(l) \ read : \E q \in read : r < q}
  /\ UNCHANGED <<rows, adapter, queued, ctxDone, sent, base, fellBack, overlapped>>

\* The connection was closed, or the database could not be read this time.
QueryFails(l) ==
  /\ pc[l] = "query"
  /\ Resume(l, {})
  /\ UNCHANGED <<rows, adapter, queued, ctxDone, history>>

\* Mutated: the context is looked at only when the channel has room.
SendBlocks(l) ==
  /\ pc[l] = "sending" /\ ctxDone[l] /\ queued[l] < Cap
  /\ Resume(l, {})
  /\ UNCHANGED <<rows, adapter, queued, ctxDone, history>>

\* The context is done while the next event waits for room; with room the
\* select may choose either.
SendCancelled(l) ==
  /\ pc[l] = "sending" /\ ctxDone[l]
  /\ Resume(l, {})
  /\ UNCHANGED <<rows, adapter, queued, ctxDone, history>>

\* The next row is sent; the row is kept in since for the update that follows.
SendRow(l) ==
  /\ pc[l] = "sending" /\ queued[l] < Cap
  /\ \E r \in batch[l] :
       /\ \A q \in batch[l] : r <= q
       /\ sent' = [sent EXCEPT ![l] = Append(@, r)]
       /\ since' = [since EXCEPT ![l] = r]
       /\ batch' = [batch EXCEPT ![l] = @ \ {r}]
  /\ queued' = [queued EXCEPT ![l] = @ + 1]
  /\ Goto(l, "marking")
  /\ UNCHANGED <<rows, adapter, over, ctxDone, unread, base, fellBack, overlapped>>

\* Mutated: lastROWID is overwritten whatever it is.
MarkAnyhow(l) ==
  /\ pc[l] = "marking"
  /\ lastROWID' = since[l]
  /\ Resume(l, batch[l])
  /\ UNCHANGED <<rows, connected, opened, stopped, queued, ctxDone, history>>

\* Mutated: lastROWID is updated only at the end of the batch.
MarkBatch(l) ==
  /\ pc[l] = "marking"
  /\ lastROWID' = IF batch[l] = {} /\ since[l] > lastROWID THEN since[l] ELSE lastROWID
  /\ Resume(l, batch[l])
  /\ UNCHANGED <<rows, connected, opened, stopped, queued, ctxDone, history>>

\* Mutated: lastROWID is the next row to read, which the query's > passes over.
MarkNext(l) ==
  /\ pc[l] = "marking"
  /\ lastROWID' = IF since[l] + 1 > lastROWID THEN since[l] + 1 ELSE lastROWID
  /\ Resume(l, batch[l])
  /\ UNCHANGED <<rows, connected, opened, stopped, queued, ctxDone, history>>

\* Mutated: the first update takes lastROWID to the end of what is there.
MarkAhead(l) ==
  /\ pc[l] = "marking"
  /\ lastROWID' = rows
  /\ Resume(l, batch[l])
  /\ UNCHANGED <<rows, connected, opened, stopped, queued, ctxDone, history>>

\* Second critical section of the poll, once for each row sent.
MarkRow(l) ==
  /\ pc[l] = "marking"
  /\ lastROWID' = IF since[l] > lastROWID THEN since[l] ELSE lastROWID
  /\ Resume(l, batch[l])
  /\ UNCHANGED <<rows, connected, opened, stopped, queued, ctxDone, history>>

------------------------------------------------------------------------------
\* The steps a poll under way takes by itself.
Continue(l) == QueryOk(l) \/ QueryFails(l) \/ SendCancelled(l) \/ SendRow(l) \/ MarkRow(l)

\* No goroutine runs: the program may stop.
Terminated ==
  /\ \A l \in Listeners : pc[l] \in {"idle", "gone"}
  /\ UNCHANGED vars

Next ==
  \/ RowArrives \/ Connect \/ Close \/ Terminated
  \/ \E l \in Listeners :
       \/ Take(l) \/ CancelContext(l) \/ Listen(l)
       \/ ListenerExits(l) \/ PollStarts(l) \/ Continue(l)

Spec == Init /\ [][Next]_vars

\* Goroutines run, and a select that finds its stop case ready again and
\* again does not pick the ticker every time.  Nothing is assumed of the
\* reader of the channel.
Fairness ==
  \A l \in Listeners : WF_vars(Continue(l)) /\ SF_vars(ListenerExits(l))

FairSpec == Spec /\ Fairness

------------------------------------------------------------------------------
(* Properties.                                                             *)

Rows(l)  == {sent[l][i] : i \in DOMAIN sent[l]}
Received == UNION {Rows(l) : l \in Listeners}

\* No wanted message that came after the latest Connect is passed over: when
\* lastROWID is beyond it, it was sent to some listener, or a query that gave a
\* later row was not able to read it.
NothingSkipped ==
  \A r \in Wanted : base < r /\ r <= lastROWID => r \in Received \cup unread

Feed == INSTANCE ReopenedFeed WITH
  arrived <- rows, delivered <- Received, position <- lastROWID, lost <- unread

\* Only wanted rows of the database are delivered; lastROWID goes back only
\* when a Connect could not read the last row, and a poll, a stale one of an
\* earlier connection included, moves it only over rows that were sent or that
\* a query could not read.
ImplementsReopenedFeed == Feed!ReopenedSpec

\* Unless a Connect had to assume row 0, one channel never repeats a message
\* and never goes back, whatever other listeners do with lastROWID.
ChannelInOrder ==
  ~fellBack => \A l \in Listeners : \A i, j \in DOMAIN sent[l] :
                 i < j => sent[l][i] < sent[l][j]

\* Listeners that follow one another hand over exactly: no message sent by
\* one is sent by the next, although a poll may be cut short by its context
\* or by Close after any of its sends.
HandedOverOnce ==
  ~fellBack /\ ~overlapped =>
    \A l, m \in Listeners : l # m =>
      \A i \in DOMAIN sent[l], j \in DOMAIN sent[m] : sent[l][i] # sent[m][j]

\* A listener whose context is done ends, even if nobody reads its channel.
CancelStops == \A l \in Listeners : ctxDone[l] ~> pc[l] = "gone"

\* Close ends every listener whose channel is read.
CloseStopsReaders ==
  \A l \in Listeners :
    []<>(queued[l] < Cap) => (stopped /\ Running(l) ~> pc[l] = "gone")

==============================================================================
