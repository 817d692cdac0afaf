--------------------------- MODULE ResilientClient ---------------------------
(***************************************************************************)
(* client/reconnect.go: a client shared by concurrent callers that tears   *)
(* down and redials its gRPC connection when an RPC reports a connection   *)
(* error, and then tries that RPC once more.                               *)
(*                                                                         *)
(* A process is one invocation of one of the eight operations (AddMemory,  *)
(* GetMemory, RemoveMemory, SearchMemories, ListMemories, GetHotBlock,     *)
(* CreateSession, HealthCheck: they differ only in the RPC they make), or  *)
(* Builder, the invocation of NewResilientClient.  Each critical section   *)
(* of rc.mu is one action; what a process does outside the lock (the RPC,  *)
(* the dial, the backoff) is split where another process may act.          *)
(*                                                                         *)
(* The daemon and the network are the environment: an outage makes every   *)
(* existing connection unreliable for good (gRPC's own channel may or may  *)
(* not have recovered when the next RPC is made), and a request may be     *)
(* executed with its reply lost.                                           *)
(***************************************************************************)
EXTENDS Integers, FiniteSets

CONSTANTS
  Calls,          \* invocations of the client's operations
  Builder,        \* the invocation of NewResilientClient
  MaxRetries,     \* ReconnectPolicy.MaxRetries, 0 = unlimited
  MaxOutages,     \* bound: outages of the daemon or of the network
  MaxConcurrent   \* bound: operations running at the same time

ASSUME CallsAssumption   == Builder \notin Calls
ASSUME RetriesAssumption == MaxRetries \in Nat
ASSUME BoundsAssumption  == MaxOutages \in Nat /\ MaxConcurrent \in Nat

VARIABLES
  \* the fields of ResilientClient
  client,     \* rc.client: the installed connection, nil when there is none
  closed,     \* rc.closed
  \* the connections
  dials,      \* connections dialled with success so far; they are 1..dials
  open,       \* connections on which Close was not called
  broken,     \* connections that have lived through an outage
  \* the locals of each process
  pc,         \* the next step of the process
  round,      \* 1 for the first RPC of the call, 2 for its second try
  held,       \* local variable c: the connection in the process's hands
  attempt,    \* loop counter of connect
  ctxDone,    \* the caller's context was cancelled or has expired
  result,     \* what the call returned
  \* the environment
  daemonUp,   \* the daemon answers
  outages,    \* outages so far
  sent,       \* requests that left the client, as <<process, round>>
  executed    \* requests the daemon has executed

rcVars   == <<client, closed>>
connVars == <<dials, open, broken>>
procVars == <<pc, round, held, attempt, result>>
envVars  == <<daemonUp, outages>>
rpcVars  == <<sent, executed>>
vars     == <<rcVars, connVars, procVars, ctxDone, envVars, rpcVars>>

Procs == Calls \cup {Builder}
nil   == 0                       \* no connection; connections are 1..dials

Results == {"none", "ok", "error", "connError", "closed", "notConnected",
            "connectFailed", "ctxDone"}
Places  == {"idle", "get", "send", "wait", "reconnect", "dial", "backoff",
            "install", "done"}

Running(p) == pc[p] \notin {"idle", "done"}
Built      == result[Builder] = "ok"

TypeOK ==
  /\ dials \in Nat
  /\ client \in 0..dials
  /\ closed \in BOOLEAN
  /\ open \subseteq 1..dials
  /\ broken \subseteq 1..dials
  /\ pc \in [Procs -> Places]
  /\ round \in [Procs -> {1, 2}]
  /\ held \in [Procs -> 0..dials]
  /\ attempt \in [Procs -> Nat]
  /\ \A p \in Procs : MaxRetries > 0 => attempt[p] <= MaxRetries
  /\ ctxDone \in [Procs -> BOOLEAN]
  /\ result \in [Procs -> Results]
  /\ daemonUp \in BOOLEAN
  /\ outages \in 0..MaxOutages
  /\ sent \subseteq Procs \X {1, 2}
  /\ executed \subseteq sent

------------------------------------------------------------------------------
\* NewResilientClient has just been called: it goes straight to connect.
\* An outage may already be on.
Init ==
  /\ client = nil /\ closed = FALSE
  /\ dials = 0 /\ open = {} /\ broken = {}
  /\ pc = [p \in Procs |-> IF p = Builder THEN "dial" ELSE "idle"]
  /\ round = [p \in Procs |-> 1]
  /\ held = [p \in Procs |-> nil]
  /\ attempt = [p \in Procs |-> 0]
  /\ ctxDone = [p \in Procs |-> FALSE]
  /\ result = [p \in Procs |-> "none"]
  /\ outages \in 0..MaxOutages /\ outages <= 1
  /\ daemonUp = (outages = 0)
  /\ sent = {} /\ executed = {}

Goto(p, place) == pc' = [pc EXCEPT ![p] = place]

Return(p, res) ==
  /\ Goto(p, "done")
  /\ result'  = [result EXCEPT ![p] = res]
  /\ held'    = [held EXCEPT ![p] = nil]
  /\ attempt' = [attempt EXCEPT ![p] = 0]
  /\ UNCHANGED round

------------------------------------------------------------------------------
(* An operation: getClient, the RPC, and on a connection error the         *)
(* reconnection and one more getClient and RPC.                            *)

Begin(p) ==
  /\ p \in Calls
  /\ Built
  /\ pc[p] = "idle"
  /\ Cardinality({c \in Calls : Running(c)}) < MaxConcurrent
  /\ Goto(p, "get")
  /\ UNCHANGED <<rcVars, connVars, round, held, attempt, result, ctxDone, envVars, rpcVars>>

\* getClient's two error returns.
GetClientFails(p) ==
  /\ pc[p] = "get"
  /\ \/ closed /\ Return(p, "closed")
     \/ ~closed /\ client = nil /\ Return(p, "notConnected")
  /\ UNCHANGED <<rcVars, connVars, ctxDone, envVars, rpcVars>>

\* Mutated: getClient forgets to look at rc.closed.
GetClientUnchecked(p) ==
  /\ pc[p] = "get"
  /\ client # nil
  /\ held' = [held EXCEPT ![p] = client]
  /\ Goto(p, "send")
  /\ UNCHANGED <<rcVars, connVars, round, attempt, result, ctxDone, envVars, rpcVars>>

GetClient(p) ==
  /\ pc[p] = "get"
  /\ ~closed /\ client # nil
  /\ held' = [held EXCEPT ![p] = client]
  /\ Goto(p, "send")
  /\ UNCHANGED <<rcVars, connVars, round, attempt, result, ctxDone, envVars, rpcVars>>

\* The request leaves the client.
Send(p) ==
  /\ pc[p] = "send"
  /\ held[p] \in open /\ daemonUp /\ ~ctxDone[p]
  /\ sent' = sent \cup {<<p, round[p]>>}
  /\ Goto(p, "wait")
  /\ UNCHANGED <<rcVars, connVars, round, held, attempt, result, ctxDone, envVars, executed>>

\* The daemon executes a request, perhaps after its call has given up.
Execute(p, r) ==
  /\ <<p, r>> \in sent \ executed
  /\ daemonUp
  /\ executed' = executed \cup {<<p, r>>}
  /\ UNCHANGED <<rcVars, connVars, procVars, ctxDone, envVars, sent>>

ReplyOk(p) ==
  /\ pc[p] = "wait"
  /\ <<p, round[p]>> \in executed
  /\ Return(p, "ok")
  /\ UNCHANGED <<rcVars, connVars, ctxDone, envVars, rpcVars>>

\* An error isConnectionError does not accept is returned as it is: the
\* daemon refused the request, or a deadline has passed.
OtherError(p) ==
  /\ \/ pc[p] = "wait"
     \/ pc[p] = "send" /\ ctxDone[p]
  /\ Return(p, "error")
  /\ UNCHANGED <<rcVars, connVars, ctxDone, envVars, rpcVars>>

\* Mutated: isConnectionError accepts every error.
RpcFailsAnyhow(p) == pc[p] \in {"send", "wait"}

\* The RPC ends with Unavailable (the connection has seen an outage) or with
\* Canceled (someone closed the connection, or the caller's own context was
\* cancelled: the two are not told apart).
RpcInterrupted(p) ==
  /\ pc[p] \in {"send", "wait"}
  /\ held[p] \notin open \/ held[p] \in broken \/ ctxDone[p]

\* Mutated: the second try's error is lost in a shadowed err.
ErrorShadowed(p) ==
  /\ RpcInterrupted(p)
  /\ \/ /\ round[p] = 1
        /\ Goto(p, "reconnect")
        /\ held' = [held EXCEPT ![p] = nil]
        /\ UNCHANGED <<round, attempt, result>>
     \/ /\ round[p] = 2
        /\ Return(p, "ok")
  /\ UNCHANGED <<rcVars, connVars, ctxDone, envVars, rpcVars>>

ConnectionError(p) ==
  /\ RpcInterrupted(p)
  /\ \/ /\ round[p] = 1
        /\ Goto(p, "reconnect")
        /\ held' = [held EXCEPT ![p] = nil]
        /\ UNCHANGED <<round, attempt, result>>
     \/ /\ round[p] = 2
        /\ Return(p, "connError")
  /\ UNCHANGED <<rcVars, connVars, ctxDone, envVars, rpcVars>>

------------------------------------------------------------------------------
(* reconnect and connect.                                                  *)

ReconnectRefused(p) ==
  /\ pc[p] = "reconnect"
  /\ closed
  /\ Return(p, "closed")
  /\ UNCHANGED <<rcVars, connVars, ctxDone, envVars, rpcVars>>

\* Mutated: the closed connection stays installed while connect runs.
TearDownKeepsClient(p) ==
  /\ pc[p] = "reconnect"
  /\ ~closed
  /\ open' = open \ {client}
  /\ Goto(p, "dial")
  /\ UNCHANGED <<rcVars, dials, broken, round, held, attempt, result, ctxDone, envVars, rpcVars>>

\* Mutated: the old connection is dropped without being closed.
TearDownNoClose(p) ==
  /\ pc[p] = "reconnect"
  /\ ~closed
  /\ client' = nil
  /\ Goto(p, "dial")
  /\ UNCHANGED <<closed, connVars, round, held, attempt, result, ctxDone, envVars, rpcVars>>

\* reconnect's critical section closes whatever connection is installed now,
\* which need not be the one the failed RPC used.
TearDown(p) ==
  /\ pc[p] = "reconnect"
  /\ ~closed
  /\ open'   = open \ {client}
  /\ client' = nil
  /\ Goto(p, "dial")
  /\ UNCHANGED <<closed, dials, broken, round, held, attempt, result, ctxDone, envVars, rpcVars>>

\* Mutated: Connect's result is assigned to rc.client outside the lock, before
\* connect is done with it.
DialInstalls(p) ==
  /\ pc[p] = "dial"
  /\ daemonUp /\ ~ctxDone[p]
  /\ dials'  = dials + 1
  /\ open'   = open \cup {dials + 1}
  /\ held'   = [held EXCEPT ![p] = dials + 1]
  /\ client' = dials + 1
  /\ Goto(p, "install")
  /\ UNCHANGED <<closed, broken, round, attempt, result, ctxDone, envVars, rpcVars>>

\* Connect: a new connection whose health check was answered.
DialOk(p) ==
  /\ pc[p] = "dial"
  /\ daemonUp /\ ~ctxDone[p]
  /\ dials' = dials + 1
  /\ open'  = open \cup {dials + 1}
  /\ held'  = [held EXCEPT ![p] = dials + 1]
  /\ Goto(p, "install")
  /\ UNCHANGED <<rcVars, broken, round, attempt, result, ctxDone, envVars, rpcVars>>

\* Mutated: the counter is compared before it is incremented.
TriesOnceMore(p) == attempt[p] <= MaxRetries \/ MaxRetries = 0

\* Mutated: 0 means no retries instead of no limit.
ZeroMeansNone(p) == attempt[p] + 1 <= MaxRetries

\* The loop's condition for one more attempt.
TriesAgain(p) == attempt[p] + 1 <= MaxRetries \/ MaxRetries = 0

\* The loop counter; without a limit only whether it is zero matters.
NextAttempt(p) == IF MaxRetries = 0 THEN 1 ELSE attempt[p] + 1

\* Connect fails, for a moment or for ever: the certificate cannot be read, the
\* address is refused, or the health check (whose connection it closes) is not
\* answered, comes too late, or is refused by a daemon that is up.
DialFail(p) ==
  /\ pc[p] = "dial"
  /\ \/ /\ TriesAgain(p)
        /\ attempt' = [attempt EXCEPT ![p] = NextAttempt(p)]
        /\ Goto(p, "backoff")
        /\ UNCHANGED <<round, held, result>>
     \/ /\ ~TriesAgain(p)
        /\ Return(p, "connectFailed")
  /\ UNCHANGED <<rcVars, connVars, ctxDone, envVars, rpcVars>>

\* select between the backoff timer and the context; when both are ready
\* either may win.
BackoffElapsed(p) ==
  /\ pc[p] = "backoff"
  /\ Goto(p, "dial")
  /\ UNCHANGED <<rcVars, connVars, round, held, attempt, result, ctxDone, envVars, rpcVars>>

\* Mutated: the loop goes on when the context is done.
BackoffContinues(p) ==
  /\ pc[p] = "backoff"
  /\ ctxDone[p]
  /\ Goto(p, "dial")
  /\ UNCHANGED <<rcVars, connVars, round, held, attempt, result, ctxDone, envVars, rpcVars>>

BackoffCancelled(p) ==
  /\ pc[p] = "backoff"
  /\ ctxDone[p]
  /\ Return(p, "ctxDone")
  /\ UNCHANGED <<rcVars, connVars, ctxDone, envVars, rpcVars>>

\* connect's critical section: rc.closed is not looked at, and a connection
\* another process has installed in the meantime is overwritten, not closed.
Install(p) ==
  /\ pc[p] = "install"
  /\ client' = held[p]
  /\ \/ /\ p = Builder
        /\ Return(p, "ok")
     \/ /\ p # Builder
        /\ Goto(p, "get")
        /\ round'   = [round EXCEPT ![p] = 2]
        /\ held'    = [held EXCEPT ![p] = nil]
        /\ attempt' = [attempt EXCEPT ![p] = 0]
        /\ UNCHANGED result
  /\ UNCHANGED <<closed, connVars, ctxDone, envVars, rpcVars>>

------------------------------------------------------------------------------
\* Mutated: Close clears rc.client.
CloseClears ==
  /\ Built
  /\ closed' = TRUE
  /\ open'   = open \ {client}
  /\ client' = nil
  /\ UNCHANGED <<dials, broken, procVars, ctxDone, envVars, rpcVars>>

\* Close: rc.client keeps pointing to the connection it closes.
Close ==
  /\ Built
  /\ closed' = TRUE
  /\ open'   = open \ {client}
  /\ UNCHANGED <<client, dials, broken, procVars, ctxDone, envVars, rpcVars>>

\* A context that was done before its call began is one that is done at the
\* call's first step.
CancelContext(p) ==
  /\ Running(p)
  /\ ctxDone' = [ctxDone EXCEPT ![p] = TRUE]
  /\ UNCHANGED <<rcVars, connVars, procVars, envVars, rpcVars>>

Outage ==
  /\ daemonUp /\ outages < MaxOutages
  /\ daemonUp' = FALSE
  /\ outages'  = outages + 1
  /\ broken'   = 1..dials
  /\ UNCHANGED <<rcVars, dials, open, procVars, ctxDone, rpcVars>>

Recover ==
  /\ ~daemonUp
  /\ daemonUp' = TRUE
  /\ UNCHANGED <<rcVars, connVars, procVars, ctxDone, outages, rpcVars>>

\* Every call has returned.
Terminated ==
  /\ \A p \in Procs : ~Running(p)
  /\ UNCHANGED vars

------------------------------------------------------------------------------
\* What process p does by itself, Begin excepted: a caller need not call.
Step(p) ==
  \/ GetClientFails(p) \/ GetClient(p)
  \/ Send(p) \/ ReplyOk(p) \/ OtherError(p) \/ ConnectionError(p)
  \/ ReconnectRefused(p) \/ TearDown(p)
  \/ DialOk(p) \/ DialFail(p) \/ BackoffElapsed(p) \/ BackoffCancelled(p)
  \/ Install(p)

Environment ==
  \/ Outage \/ Recover
  \/ \E p \in Procs : CancelContext(p)
  \/ \E p \in Procs, r \in {1, 2} : Execute(p, r)

Next ==
  \/ \E p \in Procs : Begin(p) \/ Step(p)
  \/ Close
  \/ Environment
  \/ Terminated

Spec == Init /\ [][Next]_vars

\* A healthy connection delivers: the request a process waits for on it is
\* executed while the daemon is up.
Deliver(p) == /\ pc[p] = "wait"
              /\ held[p] \in open \ broken
              /\ Execute(p, round[p])

\* Go runs every goroutine, and a select that finds its timer and its context
\* ready again and again does not pick the timer every time.
Fairness == \A p \in Procs : /\ WF_vars(Step(p))
                             /\ WF_vars(Deliver(p))
                             /\ SF_vars(BackoffCancelled(p))

FairSpec == Spec /\ Fairness
------------------------------------------------------------------------------
(* Safety.                                                                 *)

\* Until Close, the installed connection is one nobody has closed: a
\* reconnection closes and clears rc.client in one critical section, so no
\* caller is ever handed a connection that was closed before it asked.
InstalledIsOpen == ~closed /\ client # nil => client \in open

\* A connection between Connect and its installation is open and belongs to
\* its dialler alone: neither Close, nor another process's reconnect, nor
\* another's RPC can touch it.
FreshIsPrivate ==
  \A p \in Procs : pc[p] = "install" =>
    /\ held[p] \in open
    /\ held[p] # client
    /\ \A q \in Procs \ {p} : held[q] # held[p]

\* Once built, the client is without a connection only while some call is
\* between reconnect and the end of connect, or after one whose connect gave
\* up: retries exhausted, or the context of that one call done.
DisconnectedHasCause ==
  Built /\ client = nil =>
    \E p \in Calls : \/ pc[p] \in {"dial", "backoff", "install"}
                     \/ result[p] \in {"connectFailed", "ctxDone"}

\* No outage, no Close and every context alive.
Calm == outages = 0 /\ ~closed /\ \A p \in Procs : ~ctxDone[p]

\* As long as nothing disturbs them, concurrent calls do not disturb each
\* other: nobody reconnects, nothing is sent or executed twice, no call fails
\* for a reason of the client's own, and only one connection was dialled.
CalmCallsDoNotInterfere ==
  Calm => /\ dials <= 1
          /\ \A p \in Calls : /\ round[p] = 1
                              /\ pc[p] \in {"idle", "get", "send", "wait", "done"}
                              /\ result[p] \in {"none", "ok", "error"}

\* Every open connection is installed or about to be: holds when operations
\* do not overlap (MaxConcurrent = 1), with Close at any moment.
NoOrphan ==
  \A c \in open : c = client \/ \E p \in Procs : pc[p] = "install" /\ held[p] = c

------------------------------------------------------------------------------
(* What a caller is promised.                                              *)

CallPhase   == [c \in Calls |-> IF pc[c] = "idle" THEN "idle"
                                ELSE IF pc[c] = "done" THEN "finished" ELSE "running"]
CallAsked   == [c \in Calls |-> {r \in {1, 2} : <<c, r>> \in sent}]
CallApplied == [c \in Calls |-> {r \in {1, 2} : <<c, r>> \in executed}]
CallOutcome == [c \in Calls |-> IF result[c] \in {"none", "ok"} THEN result[c] ELSE "failed"]

Abstract == INSTANCE AtMostTwice WITH
  phase <- CallPhase, asked <- CallAsked, applied <- CallApplied, outcome <- CallOutcome

\* The retry wrapper of every operation keeps the promise of AtMostTwice: at
\* most two requests, in order, none after the call returned, and success
\* only when the last of them was executed.
ImplementsAtMostTwice == Abstract!Spec

------------------------------------------------------------------------------
(* Liveness, under FairSpec.                                               *)

\* Nothing but outages and contexts keeps Connect from succeeding: a process
\* that comes back to it again and again, while the daemon is up and its
\* context alive, does not fail every time.
ConnectSucceeds == \A p \in Procs : SF_vars(DialOk(p))

\* If the daemon comes back for good, every call returns, whether or not its
\* context is done and whatever Close does; without a limit on the retries,
\* only if Connect does not fail for ever.
CallsReturn ==
  (<>[]daemonUp /\ (MaxRetries = 0 => ConnectSucceeds)) =>
    \A p \in Procs : Running(p) ~> pc[p] = "done"

\* With unlimited retries, contexts that stay alive, a daemon that comes back
\* for good and a Connect that does not fail for ever, the client ends up with
\* a connection installed.
HealsWhenUnlimited ==
  (/\ MaxRetries = 0
   /\ <>[]daemonUp /\ ConnectSucceeds
   /\ [](\A p \in Procs : ~ctxDone[p])) =>
    <>[](client # nil)

\* A call that has not passed getClient when the client is closed never
\* sends a request, whatever is installed after Close.
NoRequestAfterClose ==
  \A p \in Calls :
    [](closed /\ pc[p] \in {"idle", "get"} /\ round[p] = 1 =>
         [](<<p, 1>> \notin sent /\ <<p, 2>> \notin sent))

------------------------------------------------------------------------------
(* Statements of the source's comments that the code does not keep.        *)

\* reconnect.go:288, of Close: "No reconnection will be attempted."
NoReconnectionAfterClose == [][closed => dials' = dials]_vars

\* reconnect.go:104, of getClient: "returns the current client, reconnecting
\* if necessary": no call is refused for want of a connection.
GetClientReconnects == \A p \in Calls : result[p] # "notConnected"
==============================================================================
