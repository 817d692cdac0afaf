---------------------------- MODULE AgentSession -----------------------------
(***************************************************************************)
(* client/agent.go: an agent's registration, heartbeat goroutine and       *)
(* subscription goroutines, and the Close that is to stop them.            *)
(*                                                                         *)
(* A process is one invocation of Register, Subscribe or Close; which of   *)
(* them is decided by the first action it takes.  The heartbeat loop a     *)
(* Register starts, and the stream and reader a Subscribe starts, are      *)
(* named after the invocation that started them.  Register and Subscribe   *)
(* hold as.mu across their RPC; Close takes it twice, to read the fields   *)
(* and to clear registered, and does its work in between without it.       *)
(*                                                                         *)
(* Left out: the payload of events (the reader and its channel are only    *)
(* alive or not) and as.config.ID.                                         *)
(***************************************************************************)
CONSTANTS Ops,   \* invocations of the session's operations
          None   \* nil: no cancel function, no lock owner

ASSUME NoneAssumption == None \notin Ops

VARIABLES
  \* the fields of AgentSession
  mu,            \* the operation that holds as.mu, or None
  registered,    \* as.registered
  cancelHB,      \* as.cancelHB: the heartbeat loop it stops
  done,          \* as.done has been closed
  streamCancel,  \* as.streamCancel: the stream it cancels
  \* the operations
  pc,            \* where each operation is
  saw,           \* Close's local copies of registered, cancelHB, streamCancel
  \* contexts and goroutines
  hbCancelled,   \* heartbeat loops whose context is cancelled
  subCancelled,  \* streams whose context is cancelled
  heartbeat,     \* where each heartbeat loop is
  reader,        \* where each stream's goroutine is
  panicked       \* close of a closed channel: the program is gone

fields == <<mu, registered, cancelHB, done, streamCancel>>
vars == <<fields, pc, saw, hbCancelled, subCancelled, heartbeat, reader, panicked>>

Places == {"idle", "registering", "subscribing", "locking", "cancelling",
           "awaiting", "clearing", "closed", "returned"}
Saw    == [registered : BOOLEAN, hb : Ops \cup {None}, stream : Ops \cup {None}]
NotRead == [registered |-> FALSE, hb |-> None, stream |-> None]

TypeOK ==
  /\ mu \in Ops \cup {None}
  /\ cancelHB \in Ops \cup {None} /\ streamCancel \in Ops \cup {None}
  /\ registered \in BOOLEAN /\ done \in BOOLEAN /\ panicked \in BOOLEAN
  /\ pc \in [Ops -> Places]
  /\ saw \in [Ops -> Saw]
  /\ hbCancelled \subseteq Ops /\ subCancelled \subseteq Ops
  /\ heartbeat \in [Ops -> {"none", "select", "rpc", "gone"}]
  /\ reader \in [Ops -> {"none", "recv", "event", "gone"}]
  /\ mu # None => pc[mu] \in {"registering", "subscribing"}

------------------------------------------------------------------------------
\* NewAgentSession makes the done channel, once for the session's life.
Init ==
  /\ mu = None /\ registered = FALSE /\ cancelHB = None
  /\ done = FALSE /\ streamCancel = None
  /\ pc = [p \in Ops |-> "idle"]
  /\ saw = [p \in Ops |-> NotRead]
  /\ hbCancelled = {} /\ subCancelled = {}
  /\ heartbeat = [p \in Ops |-> "none"]
  /\ reader = [p \in Ops |-> "none"]
  /\ panicked = FALSE

Alive == ~panicked

Goto(p, place) == pc' = [pc EXCEPT ![p] = place]

------------------------------------------------------------------------------
(* Register.                                                               *)

RegisterStart(p) ==
  /\ Alive /\ pc[p] = "idle" /\ mu = None
  /\ \/ registered /\ Goto(p, "returned") /\ UNCHANGED mu
     \/ ~registered /\ Goto(p, "registering") /\ mu' = p
  /\ UNCHANGED <<registered, cancelHB, done, streamCancel, saw, hbCancelled,
                 subCancelled, heartbeat, reader, panicked>>

\* Mutated: the error return does not unlock as.mu.
RegisterFailsLocked(p) ==
  /\ Alive /\ pc[p] = "registering"
  /\ Goto(p, "returned")
  /\ UNCHANGED <<fields, saw, hbCancelled, subCancelled, heartbeat, reader, panicked>>

RegisterFails(p) ==
  /\ Alive /\ pc[p] = "registering"
  /\ Goto(p, "returned")
  /\ mu' = None
  /\ UNCHANGED <<registered, cancelHB, done, streamCancel, saw, hbCancelled,
                 subCancelled, heartbeat, reader, panicked>>

RegisterOk(p) ==
  /\ Alive /\ pc[p] = "registering"
  /\ registered' = TRUE
  /\ cancelHB'   = p
  /\ heartbeat'  = [heartbeat EXCEPT ![p] = "select"]
  /\ Goto(p, "returned")
  /\ mu' = None
  /\ UNCHANGED <<done, streamCancel, saw, hbCancelled, subCancelled, reader, panicked>>

------------------------------------------------------------------------------
(* Subscribe.                                                              *)

\* as.streamCancel is overwritten before the RPC is made.
SubscribeStart(p) ==
  /\ Alive /\ pc[p] = "idle" /\ mu = None
  /\ \/ ~registered /\ Goto(p, "returned") /\ UNCHANGED <<mu, streamCancel>>
     \/ registered /\ Goto(p, "subscribing") /\ mu' = p /\ streamCancel' = p
  /\ UNCHANGED <<registered, cancelHB, done, saw, hbCancelled, subCancelled,
                 heartbeat, reader, panicked>>

SubscribeFails(p) ==
  /\ Alive /\ pc[p] = "subscribing"
  /\ subCancelled' = subCancelled \cup {p}
  /\ Goto(p, "returned")
  /\ mu' = None
  /\ UNCHANGED <<registered, cancelHB, done, streamCancel, saw, hbCancelled,
                 heartbeat, reader, panicked>>

SubscribeOk(p) ==
  /\ Alive /\ pc[p] = "subscribing"
  /\ reader' = [reader EXCEPT ![p] = "recv"]
  /\ Goto(p, "returned")
  /\ mu' = None
  /\ UNCHANGED <<registered, cancelHB, done, streamCancel, saw, hbCancelled,
                 subCancelled, heartbeat, panicked>>

------------------------------------------------------------------------------
(* Close.                                                                  *)

\* Close is called; a Register or a Subscribe may hold as.mu across its RPC.
CloseStart(p) ==
  /\ Alive /\ pc[p] = "idle"
  /\ Goto(p, "locking")
  /\ UNCHANGED <<fields, saw, hbCancelled, subCancelled, heartbeat, reader, panicked>>

\* First critical section: copy the three fields.
CloseReads(p) ==
  /\ Alive /\ pc[p] = "locking" /\ mu = None
  /\ saw' = [saw EXCEPT ![p] = [registered |-> registered, hb |-> cancelHB,
                                stream |-> streamCancel]]
  /\ Goto(p, "cancelling")
  /\ UNCHANGED <<fields, hbCancelled, subCancelled, heartbeat, reader, panicked>>

CloseCancels(p) ==
  /\ Alive /\ pc[p] = "cancelling"
  /\ hbCancelled'  = hbCancelled \cup ({saw[p].hb} \ {None})
  /\ subCancelled' = subCancelled \cup ({saw[p].stream} \ {None})
  /\ Goto(p, IF saw[p].registered THEN "awaiting" ELSE "clearing")
  /\ UNCHANGED <<fields, saw, heartbeat, reader, panicked>>

\* Mutated: Close does not wait for the heartbeat goroutine.
CloseDoesNotWait(p) ==
  /\ Alive /\ pc[p] = "awaiting"
  /\ Goto(p, "clearing")
  /\ UNCHANGED <<fields, saw, hbCancelled, subCancelled, heartbeat, reader, panicked>>

\* <-as.done: immediate once the channel is closed, whoever closed it.
CloseWaits(p) ==
  /\ Alive /\ pc[p] = "awaiting"
  /\ done
  /\ Goto(p, "clearing")
  /\ UNCHANGED <<fields, saw, hbCancelled, subCancelled, heartbeat, reader, panicked>>

\* Mutated: Close forgets to clear as.registered.
CloseKeepsRegistered(p) ==
  /\ Alive /\ pc[p] = "clearing" /\ mu = None
  /\ Goto(p, "closed")
  /\ UNCHANGED <<fields, saw, hbCancelled, subCancelled, heartbeat, reader, panicked>>

\* Second critical section.
CloseClears(p) ==
  /\ Alive /\ pc[p] = "clearing" /\ mu = None
  /\ registered' = FALSE
  /\ Goto(p, "closed")
  /\ UNCHANGED <<mu, cancelHB, done, streamCancel, saw, hbCancelled,
                 subCancelled, heartbeat, reader, panicked>>

------------------------------------------------------------------------------
(* The heartbeat goroutine started by registration h.                      *)

HeartbeatSends(h) ==
  /\ Alive /\ heartbeat[h] = "select"
  /\ heartbeat' = [heartbeat EXCEPT ![h] = "rpc"]
  /\ UNCHANGED <<fields, pc, saw, hbCancelled, subCancelled, reader, panicked>>

\* The Heartbeat RPC has its own five second timeout; its error is logged.
HeartbeatReturns(h) ==
  /\ Alive /\ heartbeat[h] = "rpc"
  /\ heartbeat' = [heartbeat EXCEPT ![h] = "select"]
  /\ UNCHANGED <<fields, pc, saw, hbCancelled, subCancelled, reader, panicked>>

\* Mutated: the loop returns without its deferred close(as.done).
HeartbeatExitsSilently(h) ==
  /\ Alive /\ heartbeat[h] = "select" /\ h \in hbCancelled
  /\ heartbeat' = [heartbeat EXCEPT ![h] = "gone"]
  /\ UNCHANGED <<fields, pc, saw, hbCancelled, subCancelled, reader, panicked>>

\* The deferred close(as.done): done is one channel for all registrations,
\* and closing it again panics.
HeartbeatExits(h) ==
  /\ Alive /\ heartbeat[h] = "select" /\ h \in hbCancelled
  /\ heartbeat' = [heartbeat EXCEPT ![h] = "gone"]
  /\ panicked'  = done
  /\ done' = TRUE
  /\ UNCHANGED <<mu, registered, cancelHB, streamCancel, pc, saw, hbCancelled,
                 subCancelled, reader>>

------------------------------------------------------------------------------
(* The goroutine that reads the stream of subscription s.                  *)

\* An event arrives and OnEvent runs on it; also after the cancellation, when
\* the event was already there.
ReaderRecv(s) ==
  /\ Alive /\ reader[s] = "recv"
  /\ reader' = [reader EXCEPT ![s] = "event"]
  /\ UNCHANGED <<fields, pc, saw, hbCancelled, subCancelled, heartbeat, panicked>>

\* OnEvent has returned and the event is in the channel or dropped.
ReaderForwards(s) ==
  /\ Alive /\ reader[s] = "event"
  /\ reader' = [reader EXCEPT ![s] = "recv"]
  /\ UNCHANGED <<fields, pc, saw, hbCancelled, subCancelled, heartbeat, panicked>>

\* Recv fails: the stream was cancelled, or the daemon ended it, or the
\* context the caller gave to Subscribe was cancelled.
ReaderEnds(s) ==
  /\ Alive /\ reader[s] = "recv"
  /\ reader' = [reader EXCEPT ![s] = "gone"]
  /\ UNCHANGED <<fields, pc, saw, hbCancelled, subCancelled, heartbeat, panicked>>

------------------------------------------------------------------------------
\* The answer to the RPC of a Register or of a Subscribe.
Answer(p) ==
  \/ RegisterFails(p) \/ RegisterOk(p)
  \/ SubscribeFails(p) \/ SubscribeOk(p)

\* A Close once called goes on by itself.
Continue(p) ==
  CloseReads(p) \/ CloseCancels(p) \/ CloseWaits(p) \/ CloseClears(p)

Heartbeat(h) == HeartbeatSends(h) \/ HeartbeatReturns(h) \/ HeartbeatExits(h)
Reader(s)    == ReaderRecv(s) \/ ReaderForwards(s) \/ ReaderEnds(s)

\* Nothing is left to do, or the program is gone.
Terminated ==
  /\ \/ panicked
     \/ /\ \A p \in Ops : pc[p] \in {"closed", "returned"}
        /\ \A g \in Ops : heartbeat[g] \in {"none", "gone"} /\ reader[g] \in {"none", "gone"}
  /\ UNCHANGED vars

Next ==
  \/ \E p \in Ops : \/ RegisterStart(p) \/ SubscribeStart(p) \/ CloseStart(p)
                    \/ Answer(p) \/ Continue(p) \/ Heartbeat(p) \/ Reader(p)
  \/ Terminated

Spec == Init /\ [][Next]_vars

\* Goroutines run, a Heartbeat RPC has its timeout, and a select that finds its
\* context done again and again does not pick the ticker every time.  Nothing
\* is assumed of the RPCs made under as.mu: they have the caller's context.
Fairness ==
  \A p \in Ops : /\ WF_vars(Continue(p))
                 /\ WF_vars(HeartbeatReturns(p))
                 /\ SF_vars(HeartbeatExits(p))

FairSpec == Spec /\ Fairness

------------------------------------------------------------------------------
(* Properties.                                                             *)

Closing(p) == pc[p] \in {"cancelling", "awaiting", "clearing"}

\* A session that says it is registered has its heartbeat loop running,
\* except while a Close that cancelled that very loop is still under way: a
\* stale Close never stops the loop of a later registration.
RegisteredHasHeartbeat ==
  registered =>
    \/ heartbeat[cancelHB] \in {"select", "rpc"} /\ cancelHB \notin hbCancelled
    \/ \E p \in Ops : Closing(p) /\ saw[p].hb = cancelHB

\* At most one registration has succeeded in the session's life.
RegisteredOnce ==
  \A g, h \in Ops : heartbeat[g] # "none" /\ heartbeat[h] # "none" => g = h

\* A session registered only once is shut down as Close's comment says,
\* however many Closes, concurrent or repeated: no panic, and when a Close
\* that found it registered returns, the heartbeat loop has exited, so no
\* heartbeat is sent after that.
GracefulOnce ==
  RegisteredOnce =>
    /\ ~panicked
    /\ \A p \in Ops : pc[p] = "closed" /\ saw[p].registered =>
                        /\ heartbeat[saw[p].hb] = "gone"
                        /\ ~registered

\* Every Close returns, one that is waiting for its first lock included, if
\* the program lives and the daemon answers every Register and Subscribe, so
\* that as.mu is free again and again: no Close is left waiting for a heartbeat
\* goroutine.
CloseReturns ==
  []<>(mu = None) =>
    \A p \in Ops : pc[p] = "locking" \/ Closing(p) ~> pc[p] = "closed" \/ panicked

------------------------------------------------------------------------------
(* Statements of the source's comments that the code does not keep.        *)

\* agent.go:142: "Close gracefully shuts down the agent session".
NeverPanics == ~panicked

\* agent.go:93, of Subscribe: "Call Close() to unsubscribe.": whenever no
\* operation is under way, a live stream is the one that a Close called now
\* would cancel, and no Close has already left it behind.
Quiet == \A p \in Ops : pc[p] \in {"idle", "closed", "returned"}
CloseUnsubscribes ==
  Quiet => \A s \in Ops : reader[s] \in {"recv", "event"} /\ s \notin subCancelled =>
                             streamCancel = s /\ registered
==============================================================================
