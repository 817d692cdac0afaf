------------------------ MODULE ResilientClientProofs ------------------------
(***************************************************************************)
(* Theorems about ResilientClient, for any set of calls, any number of     *)
(* retries (limited or not) and any number of outages.                     *)
(***************************************************************************)
EXTENDS ResilientClient, FiniteSetTheorems, TLAPS

\* The variables keep their types in every behaviour: in particular the loop
\* counter of connect never exceeds MaxRetries and connections are numbered
\* in the order they were dialled.
THEOREM Typing == Spec => []TypeOK
<1>1. Init => TypeOK
  <2> SUFFICES ASSUME Init PROVE TypeOK
    OBVIOUS
  <2>1. daemonUp \in BOOLEAN
    BY DEF Init
  <2>2. open \subseteq 1..dials /\ broken \subseteq 1..dials /\ executed \subseteq sent
    BY DEF Init
  <2>3. outages \in 0..MaxOutages /\ sent \subseteq Procs \X {1, 2}
    BY DEF Init
  <2>4. /\ pc \in [Procs -> Places] /\ round \in [Procs -> {1, 2}]
        /\ held \in [Procs -> 0..dials] /\ ctxDone \in [Procs -> BOOLEAN]
        /\ result \in [Procs -> Results]
    BY DEF Init, Places, Results, nil
  <2>5. /\ attempt \in [Procs -> Nat]
        /\ \A p \in Procs : MaxRetries > 0 => attempt[p] <= MaxRetries
    BY RetriesAssumption DEF Init
  <2>6. dials \in Nat /\ client \in 0..dials
    BY DEF Init, nil
  <2>7. closed \in BOOLEAN
    BY DEF Init
  <2> QED
    BY <2>1, <2>2, <2>3, <2>4, <2>5, <2>6, <2>7 DEF TypeOK
<1>2. TypeOK /\ [Next]_vars => TypeOK'
  <2> SUFFICES ASSUME TypeOK, [Next]_vars PROVE TypeOK'
    OBVIOUS
  <2> USE RetriesAssumption, BoundsAssumption DEF Places, nil
  <2>1. ASSUME NEW p \in Procs, Begin(p) PROVE TypeOK'
    BY <2>1 DEF Begin, TypeOK, Goto, rcVars, connVars, envVars, rpcVars
  <2>2. ASSUME NEW p \in Procs, Step(p) PROVE TypeOK'
    <3>1. CASE GetClientFails(p)
      BY <3>1 DEF GetClientFails, TypeOK, Return, Goto, Results, rcVars, connVars, envVars, rpcVars
    <3>2. CASE GetClient(p)
      BY <3>2 DEF GetClient, TypeOK, Goto, rcVars, connVars, envVars, rpcVars
    <3>3. CASE Send(p)
      BY <3>3 DEF Send, TypeOK, Goto, rcVars, connVars, envVars, rpcVars
    <3>4. CASE ReplyOk(p)
      BY <3>4 DEF ReplyOk, TypeOK, Return, Goto, Results, rcVars, connVars, envVars, rpcVars
    <3>5. CASE OtherError(p)
      BY <3>5 DEF OtherError, TypeOK, Return, Goto, Results, rcVars, connVars, envVars, rpcVars
    <3>6. CASE ConnectionError(p)
      BY <3>6 DEF ConnectionError, RpcInterrupted, TypeOK, Return, Goto, Results, rcVars, connVars, envVars, rpcVars
    <3>7. CASE ReconnectRefused(p)
      BY <3>7 DEF ReconnectRefused, TypeOK, Return, Goto, Results, rcVars, connVars, envVars, rpcVars
    <3>8. CASE TearDown(p)
      BY <3>8 DEF TearDown, TypeOK, Goto, envVars, rpcVars
    <3>9. CASE DialOk(p)
      <4> USE <3>9 DEF DialOk, TypeOK, Goto, rcVars, envVars, rpcVars
      <4>1. dials' \in Nat /\ dials' = dials + 1 /\ client' \in 0..dials'
        OBVIOUS
      <4>2. open' \subseteq 1..dials' /\ broken' \subseteq 1..dials'
        OBVIOUS
      <4>3. held' \in [Procs -> 0..dials']
        OBVIOUS
      <4> QED
        BY <4>1, <4>2, <4>3
    <3>10. CASE DialFail(p)
      BY <3>10 DEF DialFail, TriesAgain, NextAttempt, TypeOK, Return, Goto, Results, rcVars, connVars, envVars, rpcVars
    <3>11. CASE BackoffElapsed(p)
      BY <3>11 DEF BackoffElapsed, TypeOK, Goto, rcVars, connVars, envVars, rpcVars
    <3>12. CASE BackoffCancelled(p)
      BY <3>12 DEF BackoffCancelled, TypeOK, Return, Goto, Results, rcVars, connVars, envVars, rpcVars
    <3>13. CASE Install(p)
      BY <3>13 DEF Install, TypeOK, Return, Goto, Results, connVars, envVars, rpcVars
    <3> QED
      BY <2>2, <3>1, <3>2, <3>3, <3>4, <3>5, <3>6, <3>7, <3>8, <3>9, <3>10,
         <3>11, <3>12, <3>13 DEF Step
  <2>3. CASE Close
    BY <2>3 DEF Close, TypeOK, procVars, envVars, rpcVars
  <2>4. CASE Environment
    <3>1. CASE Outage
      <4> USE <3>1 DEF Outage, TypeOK, rcVars, procVars, rpcVars
      <4>1. daemonUp' \in BOOLEAN
        OBVIOUS
      <4>3. outages' \in 0..MaxOutages
        OBVIOUS
      <4>2. broken' \subseteq 1..dials'
        OBVIOUS
      <4> QED
        BY <4>1, <4>2, <4>3
    <3>2. CASE Recover
      BY <2>4, <3>2 DEF Recover, TypeOK, rcVars, connVars, procVars, rpcVars
    <3>3. ASSUME NEW p \in Procs, CancelContext(p) PROVE TypeOK'
      BY <3>3 DEF CancelContext, TypeOK, rcVars, connVars, procVars, envVars, rpcVars
    <3>4. ASSUME NEW p \in Procs, NEW r \in {1, 2}, Execute(p, r) PROVE TypeOK'
      BY <3>4 DEF Execute, TypeOK, rcVars, connVars, procVars, envVars
    <3> QED
      BY <2>4, <3>1, <3>2, <3>3, <3>4 DEF Environment
  <2>5. CASE UNCHANGED vars
    BY <2>5 DEF vars, TypeOK, rcVars, connVars, procVars, envVars, rpcVars
  <2> QED
    BY <2>1, <2>2, <2>3, <2>4, <2>5 DEF Next, Terminated
<1> QED
  BY <1>1, <1>2, PTL DEF Spec

------------------------------------------------------------------------------
(* Who owns a connection.  The two invariants the runs check are inductive *)
(* together: a fresh connection is nobody else's because its number is     *)
(* larger than any other's, so the connection that teardown or Close       *)
(* closes is never one about to be installed.                              *)

Ownership == InstalledIsOpen /\ FreshIsPrivate

LEMMA OwnershipInit == Init => Ownership
  BY DEF Init, Ownership, InstalledIsOpen, FreshIsPrivate, nil

\* A process that is not about to install, and installs nothing, cannot
\* disturb ownership as long as it takes only the installed connection.
LEMMA OwnershipKept ==
  ASSUME TypeOK, Ownership, NEW p \in Procs,
         UNCHANGED <<client, closed, open>>,
         pc' \in [Procs -> Places], held' \in [Procs -> 0..dials],
         pc'[p] # "install", held'[p] \in {nil, client, held[p]},
         held'[p] = held[p] => pc[p] # "install" \/ held[p] = nil,
         \A q \in Procs \ {p} : pc'[q] = pc[q] /\ held'[q] = held[q]
  PROVE  Ownership'
<1>1. InstalledIsOpen'
  BY DEF Ownership, InstalledIsOpen
<1>2. ASSUME NEW q \in Procs, pc'[q] = "install"
      PROVE  /\ held'[q] \in open
             /\ held'[q] # client
             /\ \A o \in Procs \ {q} : held'[o] # held'[q]
  <2>1. q # p /\ pc[q] = "install" /\ held'[q] = held[q]
    BY <1>2
  <2>2. held[q] \in open /\ held[q] # client /\ held[q] # nil
    BY <2>1 DEF Ownership, FreshIsPrivate, TypeOK, nil
  <2>3. \A o \in Procs \ {q} : held[o] # held[q]
    BY <2>1 DEF Ownership, FreshIsPrivate
  <2> QED
    BY <2>1, <2>2, <2>3
<1> QED
  BY <1>1, <1>2 DEF Ownership, FreshIsPrivate

LEMMA OwnershipStep ==
  ASSUME TypeOK, Ownership, NEW p \in Procs, Step(p), TypeOK'
  PROVE  Ownership'
<1> USE DEF nil
<1>1. CASE GetClientFails(p)
  BY <1>1, OwnershipKept DEF GetClientFails, Return, Goto, TypeOK, rcVars, connVars
<1>2. CASE GetClient(p)
  BY <1>2, OwnershipKept DEF GetClient, Goto, TypeOK, rcVars, connVars
<1>3. CASE Send(p)
  BY <1>3, OwnershipKept DEF Send, Goto, TypeOK, rcVars, connVars
<1>4. CASE ReplyOk(p)
  BY <1>4, OwnershipKept DEF ReplyOk, Return, Goto, TypeOK, rcVars, connVars
<1>5. CASE OtherError(p)
  BY <1>5, OwnershipKept DEF OtherError, Return, Goto, TypeOK, rcVars, connVars
<1>6. CASE ConnectionError(p)
  BY <1>6, OwnershipKept DEF ConnectionError, RpcInterrupted, Return, Goto, TypeOK, rcVars, connVars
<1>7. CASE ReconnectRefused(p)
  BY <1>7, OwnershipKept DEF ReconnectRefused, Return, Goto, TypeOK, rcVars, connVars
<1>8. CASE TearDown(p)
  <2>1. /\ client' = nil /\ open' = open \ {client} /\ held' = held
        /\ pc' = [pc EXCEPT ![p] = "dial"]
    BY <1>8 DEF TearDown, Goto
  <2>2. ASSUME NEW q \in Procs, pc'[q] = "install"
        PROVE  /\ held'[q] \in open' /\ held'[q] # client'
               /\ \A o \in Procs \ {q} : held'[o] # held'[q]
    <3>1. pc[q] = "install"
      BY <2>1, <2>2 DEF TypeOK
    <3> QED
      BY <2>1, <3>1 DEF Ownership, FreshIsPrivate, TypeOK
  <2> QED
    BY <2>1, <2>2 DEF Ownership, InstalledIsOpen, FreshIsPrivate
<1>9. CASE DialOk(p)
  <2>1. /\ client' = client /\ closed' = closed /\ dials' = dials + 1
        /\ open' = open \cup {dials + 1}
        /\ held' = [held EXCEPT ![p] = dials + 1]
        /\ pc' = [pc EXCEPT ![p] = "install"]
    BY <1>9 DEF DialOk, Goto, rcVars
  <2>2. client < dials + 1 /\ \A q \in Procs : held[q] \in Nat /\ held[q] < dials + 1
    BY DEF TypeOK
  <2>3. ASSUME NEW q \in Procs, pc'[q] = "install"
        PROVE  /\ held'[q] \in open' /\ held'[q] # client'
               /\ \A o \in Procs \ {q} : held'[o] # held'[q]
    <3>1. CASE q = p
      BY <2>1, <2>2, <3>1 DEF TypeOK
    <3>2. CASE q # p
      <4>1. pc[q] = "install" /\ held'[q] = held[q]
        BY <2>1, <2>3, <3>2 DEF TypeOK
      <4>2. held[q] \in open /\ held[q] # client
        BY <4>1 DEF Ownership, FreshIsPrivate
      <4>3. ASSUME NEW o \in Procs \ {q} PROVE held'[o] # held'[q]
        <5>1. CASE o = p
          BY <2>1, <2>2, <4>1, <5>1 DEF TypeOK
        <5>2. CASE o # p
          BY <2>1, <4>1, <5>2 DEF Ownership, FreshIsPrivate, TypeOK
        <5> QED
          BY <5>1, <5>2
      <4> QED
        BY <2>1, <4>1, <4>2, <4>3
    <3> QED
      BY <3>1, <3>2
  <2> QED
    BY <2>1, <2>3 DEF Ownership, InstalledIsOpen, FreshIsPrivate
<1>10. CASE DialFail(p)
  BY <1>10, OwnershipKept DEF DialFail, Return, Goto, TypeOK, rcVars, connVars
<1>11. CASE BackoffElapsed(p)
  BY <1>11, OwnershipKept DEF BackoffElapsed, Goto, TypeOK, rcVars, connVars
<1>12. CASE BackoffCancelled(p)
  BY <1>12, OwnershipKept DEF BackoffCancelled, Return, Goto, TypeOK, rcVars, connVars
<1>13. CASE Install(p)
  <2>1. /\ client' = held[p] /\ open' = open
        /\ held' = [held EXCEPT ![p] = nil]
        /\ pc'[p] # "install"
        /\ \A q \in Procs \ {p} : pc'[q] = pc[q]
    BY <1>13 DEF Install, Return, Goto, TypeOK, connVars
  <2>2. held[p] \in open /\ \A q \in Procs \ {p} : held[q] # held[p]
    BY <1>13 DEF Install, Ownership, FreshIsPrivate
  <2>3. ASSUME NEW q \in Procs, pc'[q] = "install"
        PROVE  /\ held'[q] \in open' /\ held'[q] # client'
               /\ \A o \in Procs \ {q} : held'[o] # held'[q]
    <3>1. q # p /\ pc[q] = "install" /\ held'[q] = held[q]
      BY <2>1, <2>3 DEF TypeOK
    <3>2. held[q] \in open /\ held[q] # nil
      BY <3>1 DEF Ownership, FreshIsPrivate, TypeOK
    <3>3. ASSUME NEW o \in Procs \ {q} PROVE held'[o] # held'[q]
      BY <2>1, <3>1, <3>2 DEF Ownership, FreshIsPrivate, TypeOK
    <3> QED
      BY <2>1, <2>2, <3>1, <3>2, <3>3
  <2> QED
    BY <2>1, <2>2, <2>3 DEF Ownership, InstalledIsOpen, FreshIsPrivate
<1> QED
  BY <1>1, <1>2, <1>3, <1>4, <1>5, <1>6, <1>7, <1>8, <1>9, <1>10, <1>11,
     <1>12, <1>13 DEF Step

\* Until Close the installed connection is open, and the connection a
\* process is about to install is open and its alone.
THEOREM ConnectionsOwned == Spec => [](InstalledIsOpen /\ FreshIsPrivate)
<1>1. Init => Ownership
  BY OwnershipInit
<1>2. TypeOK /\ TypeOK' /\ Ownership /\ [Next]_vars => Ownership'
  <2> SUFFICES ASSUME TypeOK, TypeOK', Ownership, [Next]_vars PROVE Ownership'
    OBVIOUS
  <2>1. ASSUME NEW p \in Procs, Begin(p) PROVE Ownership'
    BY <2>1, OwnershipKept DEF Begin, Goto, TypeOK, rcVars, connVars, nil
  <2>2. ASSUME NEW p \in Procs, Step(p) PROVE Ownership'
    BY <2>2, OwnershipStep
  <2>3. CASE Close
    BY <2>3 DEF Close, Ownership, InstalledIsOpen, FreshIsPrivate, procVars
  <2>4. CASE Environment
    BY <2>4 DEF Environment, Outage, Recover, CancelContext, Execute, Ownership,
       InstalledIsOpen, FreshIsPrivate, rcVars, connVars, procVars
  <2>5. CASE UNCHANGED vars
    BY <2>5 DEF vars, Ownership, InstalledIsOpen, FreshIsPrivate, rcVars, connVars, procVars
  <2> QED
    BY <2>1, <2>2, <2>3, <2>4, <2>5 DEF Next, Terminated
<1> QED
  BY <1>1, <1>2, Typing, PTL DEF Spec, Ownership

\* In particular neither Close nor another caller can touch the connection
\* that a reconnect has dialled and not yet installed.
THEOREM DialledIsPrivate == Spec => []FreshIsPrivate
  BY ConnectionsOwned, PTL

------------------------------------------------------------------------------
(* Why the client can be without a connection.                             *)

\* The constructor never goes beyond connect, and a result is final.
ResultsFinal ==
  /\ pc[Builder] \in {"dial", "backoff", "install", "done"}
  /\ \A p \in Procs : result[p] # "none" => pc[p] = "done"

Cause(p) == \/ pc[p] \in {"dial", "backoff", "install"}
            \/ result[p] \in {"connectFailed", "ctxDone"}

CauseInv == ResultsFinal /\ DisconnectedHasCause

\* A step of p that leaves rc.client alone keeps the cause: it keeps p's own,
\* and cannot touch another's.
LEMMA CauseKept ==
  ASSUME TypeOK, TypeOK', CauseInv, NEW p \in Procs, client' = client,
         \A q \in Procs \ {p} : pc'[q] = pc[q] /\ result'[q] = result[q],
         result'[p] # "none" => pc'[p] = "done",
         result'[p] = result[p] \/ pc'[p] = "done",
         p = Builder => pc'[p] \in {"dial", "backoff", "install", "done"},
         p = Builder => result'[p] # "ok" \/ result'[p] = result[p],
         Cause(p) => Cause(p)'
  PROVE  CauseInv'
<1>1. ResultsFinal'
  BY DEF CauseInv, ResultsFinal, Procs
<1>2. DisconnectedHasCause'
  <2> SUFFICES ASSUME Built', client' = nil PROVE \E q \in Calls : Cause(q)'
    BY DEF DisconnectedHasCause, Cause
  <2>1. Built
    BY DEF Built, Procs
  <2>2. PICK q \in Calls : Cause(q)
    BY <2>1 DEF CauseInv, DisconnectedHasCause, Cause
  <2>3. Cause(q)'
    <3>1. CASE q = p
      BY <2>2, <3>1
    <3>2. CASE q # p
      BY <2>2, <3>2 DEF Cause, Procs
    <3> QED
      BY <3>1, <3>2
  <2> QED
    BY <2>3
<1> QED
  BY <1>1, <1>2 DEF CauseInv

LEMMA CauseStep ==
  ASSUME TypeOK, TypeOK', Ownership, CauseInv, NEW p \in Procs, Step(p)
  PROVE  CauseInv'
<1>a. pc[p] # "done" => result[p] = "none"
  BY DEF CauseInv, ResultsFinal
<1>b. p = Builder => pc[p] \in {"dial", "backoff", "install", "done"}
  BY DEF CauseInv, ResultsFinal
<1>1. CASE GetClientFails(p)
  BY <1>1, <1>a, <1>b, CauseKept DEF GetClientFails, Return, Goto, TypeOK, rcVars, Cause
<1>2. CASE GetClient(p)
  BY <1>2, <1>a, <1>b, CauseKept DEF GetClient, Goto, TypeOK, rcVars, Cause
<1>3. CASE Send(p)
  BY <1>3, <1>a, <1>b, CauseKept DEF Send, Goto, TypeOK, rcVars, Cause
<1>4. CASE ReplyOk(p)
  BY <1>4, <1>a, <1>b, CauseKept DEF ReplyOk, Return, Goto, TypeOK, rcVars, Cause
<1>5. CASE OtherError(p)
  BY <1>5, <1>a, <1>b, CauseKept DEF OtherError, Return, Goto, TypeOK, rcVars, Cause
<1>6. CASE ConnectionError(p)
  BY <1>6, <1>a, <1>b, CauseKept DEF ConnectionError, RpcInterrupted, Return, Goto, TypeOK, rcVars, Cause
<1>7. CASE ReconnectRefused(p)
  BY <1>7, <1>a, <1>b, CauseKept DEF ReconnectRefused, Return, Goto, TypeOK, rcVars, Cause
<1>8. CASE TearDown(p)
  <2>1. p \in Calls /\ pc' = [pc EXCEPT ![p] = "dial"] /\ result' = result
    BY <1>8, <1>b DEF TearDown, Goto, Procs
  <2>2. ResultsFinal'
    BY <1>8, <1>a, <2>1, CallsAssumption DEF TearDown, CauseInv, ResultsFinal, TypeOK, Procs
  <2>3. DisconnectedHasCause'
    BY <2>1 DEF DisconnectedHasCause, TypeOK, Procs
  <2> QED
    BY <2>2, <2>3 DEF CauseInv
<1>9. CASE DialOk(p)
  BY <1>9, <1>a, <1>b, CauseKept DEF DialOk, Goto, TypeOK, rcVars, Cause
<1>10. CASE DialFail(p)
  BY <1>10, <1>a, <1>b, CauseKept DEF DialFail, Return, Goto, TypeOK, rcVars, Cause
<1>11. CASE BackoffElapsed(p)
  BY <1>11, <1>a, <1>b, CauseKept DEF BackoffElapsed, Goto, TypeOK, rcVars, Cause
<1>12. CASE BackoffCancelled(p)
  BY <1>12, <1>a, <1>b, CauseKept DEF BackoffCancelled, Return, Goto, TypeOK, rcVars, Cause
<1>13. CASE Install(p)
  <2>1. client' = held[p] /\ held[p] \in open /\ held[p] # nil
    BY <1>13 DEF Install, Ownership, FreshIsPrivate, TypeOK, nil
  <2>2. ResultsFinal'
    BY <1>13, <1>a, CallsAssumption DEF Install, Return, Goto, CauseInv, ResultsFinal, TypeOK, Procs
  <2> QED
    BY <2>1, <2>2 DEF CauseInv, DisconnectedHasCause
<1> QED
  BY <1>1, <1>2, <1>3, <1>4, <1>5, <1>6, <1>7, <1>8, <1>9, <1>10, <1>11,
     <1>12, <1>13 DEF Step

LEMMA CauseAlways == Spec => []CauseInv
<1>1. Init => CauseInv
  BY CallsAssumption DEF Init, CauseInv, ResultsFinal, DisconnectedHasCause, Built, Procs
<1>2. TypeOK /\ TypeOK' /\ Ownership /\ CauseInv /\ [Next]_vars => CauseInv'
  <2> SUFFICES ASSUME TypeOK, TypeOK', Ownership, CauseInv, [Next]_vars PROVE CauseInv'
    OBVIOUS
  <2>1. ASSUME NEW p \in Procs, Begin(p) PROVE CauseInv'
    BY <2>1, CauseKept, CallsAssumption
    DEF Begin, Goto, TypeOK, rcVars, Cause, CauseInv, ResultsFinal
  <2>2. ASSUME NEW p \in Procs, Step(p) PROVE CauseInv'
    BY <2>2, CauseStep
  <2>3. CASE Close
    BY <2>3 DEF Close, CauseInv, ResultsFinal, DisconnectedHasCause, Built, procVars
  <2>4. CASE Environment
    BY <2>4 DEF Environment, Outage, Recover, CancelContext, Execute, CauseInv,
       ResultsFinal, DisconnectedHasCause, Built, rcVars, procVars
  <2>5. CASE UNCHANGED vars
    BY <2>5 DEF vars, CauseInv, ResultsFinal, DisconnectedHasCause, Built, rcVars, procVars
  <2> QED
    BY <2>1, <2>2, <2>3, <2>4, <2>5 DEF Next, Terminated
<1> QED
  BY <1>1, <1>2, Typing, ConnectionsOwned, PTL DEF Spec, Ownership

\* A client that has been built has no connection only because some call is
\* reconnecting, or because some call's connect has given up: neither Close
\* nor an RPC error by itself ever leaves it disconnected.
THEOREM DisconnectionHasCause == Spec => []DisconnectedHasCause
  BY CauseAlways, PTL DEF CauseInv

------------------------------------------------------------------------------
(* Concurrent calls that nothing disturbs do not disturb each other.  While *)
(* Calm holds there is, once the constructor has returned a client, one     *)
(* connection, number 1, healthy and in every running call's hands, so no   *)
(* RPC can be interrupted and nobody reaches reconnect.                     *)

CalmState ==
  /\ daemonUp /\ broken = {}
  /\ \/ /\ pc[Builder] \in {"dial", "backoff", "done"} /\ ~Built
        /\ dials = 0 /\ open = {} /\ client = nil
     \/ /\ pc[Builder] = "install" /\ ~Built /\ held[Builder] = 1
        /\ dials = 1 /\ open = {1} /\ client = nil
     \/ /\ Built
        /\ dials = 1 /\ open = {1} /\ client = 1
  /\ \A p \in Calls : /\ round[p] = 1
                      /\ pc[p] \in {"idle", "get", "send", "wait", "done"}
                      /\ result[p] \in {"none", "ok", "error"}
                      /\ pc[p] # "idle" => Built
                      /\ pc[p] \in {"send", "wait"} => held[p] = 1

CalmInv == /\ Built => pc[Builder] = "done"
           /\ Calm => CalmState

LEMMA CalmStep ==
  ASSUME TypeOK, CalmInv, ResultsFinal, NEW p \in Procs, Step(p)
  PROVE  CalmInv'
<1>1. outages' = outages /\ closed' = closed /\ ctxDone' = ctxDone /\ daemonUp' = daemonUp /\ broken' = broken
  BY DEF Step, GetClientFails, GetClient, Send, ReplyOk, OtherError, ConnectionError,
     ReconnectRefused, TearDown, DialOk, DialFail, BackoffElapsed, BackoffCancelled,
     Install, rcVars, connVars, envVars
<1>2. /\ \A q \in Procs \ {p} : /\ pc'[q] = pc[q] /\ round'[q] = round[q]
                                /\ held'[q] = held[q] /\ result'[q] = result[q]
  BY DEF Step, GetClientFails, GetClient, Send, ReplyOk, OtherError, ConnectionError,
     ReconnectRefused, TearDown, DialOk, DialFail, BackoffElapsed, BackoffCancelled,
     Install, Return, Goto, TypeOK
<1>3. Built' => pc'[Builder] = "done"
  <2>1. CASE p = Builder
    <3>1. pc[p] # "done" /\ result[p] = "none"
      BY DEF Step, GetClientFails, GetClient, Send, ReplyOk, OtherError, ConnectionError,
         RpcInterrupted, ReconnectRefused, TearDown, DialOk, DialFail, BackoffElapsed,
         BackoffCancelled, Install, ResultsFinal
    <3>2. result'[p] = result[p] \/ pc'[p] = "done"
      BY DEF Step, GetClientFails, GetClient, Send, ReplyOk, OtherError, ConnectionError,
         ReconnectRefused, TearDown, DialOk, DialFail, BackoffElapsed, BackoffCancelled,
         Install, Return, Goto, TypeOK
    <3> QED
      BY <2>1, <3>1, <3>2 DEF Built
  <2>2. CASE p # Builder
    BY <1>2, <2>2 DEF CalmInv, Built, Procs
  <2> QED
    BY <2>1, <2>2
<1>4. Calm' => CalmState'
  <2> SUFFICES ASSUME Calm PROVE CalmState'
    BY <1>1 DEF Calm
  <2> USE <1>1, CallsAssumption DEF nil
  <2>0. CalmState /\ ~ctxDone[p] /\ ~closed
    BY DEF CalmInv, Calm
  <2>1. CASE p = Builder
    <3>0. ~Built /\ pc[p] \in {"dial", "backoff", "install"}
      <4>1. result[p] = "none" /\ pc[p] # "done"
        BY DEF Step, GetClientFails, GetClient, Send, ReplyOk, OtherError, ConnectionError,
           RpcInterrupted, ReconnectRefused, TearDown, DialOk, DialFail, BackoffElapsed,
           BackoffCancelled, Install, ResultsFinal
      <4> QED
        BY <2>0, <2>1, <4>1 DEF CalmState, Built
    <3>1. Step(p) => DialOk(p) \/ Install(p) \/ DialFail(p) \/ BackoffElapsed(p)
      BY <2>0, <3>0 DEF Step, GetClientFails, GetClient, Send, ReplyOk,
         OtherError, ConnectionError, RpcInterrupted, ReconnectRefused, TearDown,
         BackoffCancelled
    <3>2. CASE DialOk(p)
      <4>1. /\ pc[Builder] = "dial" /\ dials = 0 /\ open = {} /\ client = nil
            /\ dials' = dials + 1 /\ open' = open \cup {dials + 1} /\ client' = client
            /\ held' = [held EXCEPT ![p] = dials + 1] /\ pc' = [pc EXCEPT ![p] = "install"]
        BY <2>0, <2>1, <3>0, <3>2 DEF DialOk, Goto, CalmState, rcVars
      <4>2. /\ pc'[Builder] = "install" /\ dials' = 1 /\ open' = {1} /\ client' = nil
            /\ held'[Builder] = 1
        BY <2>1, <4>1 DEF TypeOK
      <4>3. \A q \in Calls : q # p /\ pc[q] = "idle"
        BY <2>0, <2>1, <3>0 DEF CalmState
      <4>4. ~Built'
        BY <2>1, <3>0, <3>2 DEF DialOk, Built
      <4> QED
        BY <1>2, <2>0, <4>2, <4>3, <4>4 DEF CalmState, Procs
    <3>3. CASE Install(p)
      <4>1. /\ held[p] = 1 /\ dials = 1 /\ open = {1}
            /\ client' = 1 /\ dials' = 1 /\ open' = {1}
        BY <2>0, <2>1, <3>0, <3>3 DEF Install, CalmState, connVars
      <4>2. Built'
        BY <2>1, <3>3 DEF Install, Return, Built, TypeOK
      <4>3. \A q \in Calls : q # p /\ pc[q] = "idle"
        BY <2>0, <2>1, <3>0 DEF CalmState
      <4> QED
        BY <1>2, <2>0, <4>1, <4>2, <4>3 DEF CalmState, Procs
    <3>4. CASE DialFail(p) \/ BackoffElapsed(p)
      <4>1. /\ dials = 0 /\ open = {} /\ client = nil
            /\ dials' = 0 /\ open' = {} /\ client' = nil
        BY <2>0, <2>1, <3>0, <3>4 DEF DialFail, BackoffElapsed, CalmState, rcVars, connVars
      <4>2. pc'[p] \in {"dial", "backoff", "done"} /\ result'[p] # "ok"
        <5>1. result[p] # "ok"
          BY <2>1, <3>0 DEF Built
        <5> QED
          BY <3>4, <5>1 DEF DialFail, BackoffElapsed, Return, Goto, TypeOK
      <4>3. \A q \in Calls : q # p /\ pc[q] = "idle"
        BY <2>0, <2>1, <3>0 DEF CalmState
      <4>4. ~Built'
        BY <2>1, <4>2 DEF Built
      <4> QED
        BY <1>2, <2>0, <2>1, <4>1, <4>2, <4>3, <4>4 DEF CalmState, Procs
    <3> QED
      BY <3>1, <3>2, <3>3, <3>4
  <2>2. CASE p # Builder
    <3>0. p \in Calls
      BY <2>2 DEF Procs
    <3>1. Step(p) => GetClient(p) \/ Send(p) \/ ReplyOk(p) \/ OtherError(p)
      BY <2>0, <3>0 DEF CalmState, Step, GetClientFails, ConnectionError, RpcInterrupted,
         ReconnectRefused, TearDown, DialOk, DialFail, BackoffElapsed, BackoffCancelled, Install
    <3>c. Built /\ Built'
      <4>1. pc[p] # "idle"
        BY DEF Step, GetClientFails, GetClient, Send, ReplyOk, OtherError, ConnectionError,
           RpcInterrupted, ReconnectRefused, TearDown, DialOk, DialFail, BackoffElapsed,
           BackoffCancelled, Install
      <4> QED
        BY <1>2, <2>0, <2>2, <3>0, <4>1 DEF CalmState, Built, Procs
    <3>2. dials = 1 /\ open = {1} /\ client = 1 /\ (pc[p] \in {"send", "wait"} => held[p] = 1)
      BY <2>0, <3>0, <3>c DEF CalmState
    <3>3. UNCHANGED <<dials, open, client>> /\ round'[p] = round[p]
      BY <3>1 DEF GetClient, Send, ReplyOk, OtherError, Return, rcVars, connVars
    <3>4. pc'[p] \in {"send", "wait", "done"} /\ result'[p] \in {"none", "ok", "error"}
      BY <2>0, <3>0, <3>1 DEF GetClient, Send, ReplyOk, OtherError, Return, Goto, CalmState, TypeOK
    <3>5. pc'[p] \in {"send", "wait"} => held'[p] = 1
      BY <3>1, <3>2 DEF GetClient, Send, ReplyOk, OtherError, Return, Goto, TypeOK
    <3>6. \A q \in Calls \ {p} : /\ pc'[q] = pc[q] /\ round'[q] = round[q]
                                 /\ held'[q] = held[q] /\ result'[q] = result[q]
      BY <1>2 DEF Procs
    <3>7. \A q \in Calls : /\ round'[q] = 1
                           /\ pc'[q] \in {"idle", "get", "send", "wait", "done"}
                           /\ result'[q] \in {"none", "ok", "error"}
                           /\ pc'[q] \in {"send", "wait"} => held'[q] = 1
      BY <2>0, <3>0, <3>3, <3>4, <3>5, <3>6 DEF CalmState
    <3> QED
      BY <2>0, <3>c, <3>2, <3>3, <3>7 DEF CalmState
  <2> QED
    BY <2>1, <2>2
<1> QED
  BY <1>3, <1>4 DEF CalmInv

\* Without an outage, a Close or a finished context, no operation reconnects,
\* asks twice or fails for a reason of the client's own, however many run at
\* the same time.
THEOREM CalmCallsIndependent == Spec => []CalmCallsDoNotInterfere
<1>1. Init => CalmInv
  BY CallsAssumption DEF Init, CalmInv, CalmState, Calm, Built, Procs, nil
<1>2. TypeOK /\ CalmInv /\ CauseInv /\ [Next]_vars => CalmInv'
  <2> SUFFICES ASSUME TypeOK, CalmInv, CauseInv, [Next]_vars PROVE CalmInv'
    OBVIOUS
  <2>1. ASSUME NEW p \in Procs, Begin(p) PROVE CalmInv'
    BY <2>1, CallsAssumption
    DEF Begin, Goto, CalmInv, CalmState, Calm, Built, TypeOK, Procs, rcVars, connVars, envVars
  <2>2. ASSUME NEW p \in Procs, Step(p) PROVE CalmInv'
    BY <2>2, CalmStep DEF CauseInv
  <2>3. CASE Close
    BY <2>3 DEF Close, CalmInv, Calm, Built, procVars
  <2>4. CASE Environment
    <3>1. CASE Outage
      BY <3>1 DEF Outage, CalmInv, Calm, Built, TypeOK, procVars
    <3>2. CASE Recover
      BY <3>2 DEF Recover, CalmInv, Calm, CalmState, Built, rcVars, connVars, procVars
    <3>3. ASSUME NEW p \in Procs, CancelContext(p) PROVE CalmInv'
      BY <3>3 DEF CancelContext, CalmInv, Calm, Built, TypeOK, procVars
    <3>4. ASSUME NEW p \in Procs, NEW r \in {1, 2}, Execute(p, r) PROVE CalmInv'
      BY <3>4 DEF Execute, CalmInv, Calm, CalmState, Built, rcVars, connVars, procVars, envVars
    <3> QED
      BY <2>4, <3>1, <3>2, <3>3, <3>4 DEF Environment
  <2>5. CASE UNCHANGED vars
    BY <2>5 DEF vars, CalmInv, Calm, CalmState, Built, rcVars, connVars, procVars, envVars
  <2> QED
    BY <2>1, <2>2, <2>3, <2>4, <2>5 DEF Next, Terminated
<1>3. CalmInv => CalmCallsDoNotInterfere
  BY DEF CalmInv, CalmState, CalmCallsDoNotInterfere
<1>4. Spec => []CauseInv
  BY CauseAlways
<1> QED
  BY <1>1, <1>2, <1>3, <1>4, Typing, PTL DEF Spec

------------------------------------------------------------------------------
(* The retry wrapper implements AtMostTwice.                               *)

\* Requests are sent in the order of the rounds, each once, and a process
\* reconnects only in its first round.
RequestsOrdered ==
  \A p \in Procs :
    /\ \A r \in {1, 2} : <<p, r>> \in sent => r <= round[p]
    /\ pc[p] \in {"idle", "get", "send"} => <<p, round[p]>> \notin sent
    /\ pc[p] \in {"idle", "reconnect", "dial", "backoff", "install"} => round[p] = 1

LEMMA RequestsStep ==
  ASSUME TypeOK, RequestsOrdered, NEW p \in Procs, Step(p)
  PROVE  RequestsOrdered'
<1>1. ASSUME NEW q \in Procs \ {p}
      PROVE  /\ pc'[q] = pc[q] /\ round'[q] = round[q]
             /\ \A r \in {1, 2} : <<q, r>> \in sent' <=> <<q, r>> \in sent
  BY <1>1 DEF Step, GetClientFails, GetClient, Send, ReplyOk, OtherError, ConnectionError,
     ReconnectRefused, TearDown, DialOk, DialFail, BackoffElapsed, BackoffCancelled,
     Install, Return, Goto, TypeOK, rpcVars
<1>2. /\ \A r \in {1, 2} : <<p, r>> \in sent' => r <= round'[p]
      /\ pc'[p] \in {"idle", "get", "send"} => <<p, round'[p]>> \notin sent'
      /\ pc'[p] \in {"idle", "reconnect", "dial", "backoff", "install"} => round'[p] = 1
  <2> USE DEF RequestsOrdered, TypeOK
  <2>1. CASE Send(p)
    BY <2>1 DEF Send, Goto
  <2>2. CASE Install(p)
    BY <2>2 DEF Install, Return, Goto, rpcVars
  <2>3. CASE Step(p) /\ ~Send(p) /\ ~Install(p)
    BY <2>3 DEF Step, GetClientFails, GetClient, ReplyOk, OtherError, ConnectionError,
       RpcInterrupted, ReconnectRefused, TearDown, DialOk, DialFail, BackoffElapsed,
       BackoffCancelled, Return, Goto, rpcVars
  <2> QED
    BY <2>1, <2>2, <2>3
<1>3. ASSUME NEW q \in Procs
      PROVE  /\ \A r \in {1, 2} : <<q, r>> \in sent' => r <= round'[q]
             /\ pc'[q] \in {"idle", "get", "send"} => <<q, round'[q]>> \notin sent'
             /\ pc'[q] \in {"idle", "reconnect", "dial", "backoff", "install"} => round'[q] = 1
  <2>1. CASE q = p
    BY <1>2, <2>1
  <2>2. CASE q # p
    <3>1. round[q] \in {1, 2}
      BY DEF TypeOK
    <3> QED
      BY <1>1, <2>2, <3>1 DEF RequestsOrdered
  <2> QED
    BY <2>1, <2>2
<1> QED
  BY <1>3 DEF RequestsOrdered

LEMMA RequestsAlways == Spec => []RequestsOrdered
<1>1. Init => RequestsOrdered
  BY DEF Init, RequestsOrdered, Procs
<1>2. TypeOK /\ RequestsOrdered /\ [Next]_vars => RequestsOrdered'
  <2> SUFFICES ASSUME TypeOK, RequestsOrdered, [Next]_vars PROVE RequestsOrdered'
    OBVIOUS
  <2>1. ASSUME NEW p \in Procs, Begin(p) PROVE RequestsOrdered'
    BY <2>1 DEF Begin, Goto, RequestsOrdered, TypeOK, rpcVars
  <2>2. ASSUME NEW p \in Procs, Step(p) PROVE RequestsOrdered'
    BY <2>2, RequestsStep
  <2>3. CASE Close
    BY <2>3 DEF Close, RequestsOrdered, procVars, rpcVars
  <2>4. CASE Environment
    BY <2>4 DEF Environment, Outage, Recover, CancelContext, Execute, RequestsOrdered,
       procVars, rpcVars
  <2>5. CASE UNCHANGED vars
    BY <2>5 DEF vars, RequestsOrdered, procVars, rpcVars
  <2> QED
    BY <2>1, <2>2, <2>3, <2>4, <2>5 DEF Next, Terminated
<1> QED
  BY <1>1, <1>2, Typing, PTL DEF Spec

\* A step of p that sends and executes nothing is, to its caller, either a
\* return or nothing.
LEMMA QuietStep ==
  ASSUME TypeOK, TypeOK', NEW p \in Procs, pc[p] \notin {"idle", "done"}, result[p] = "none",
         \A q \in Procs \ {p} : pc'[q] = pc[q] /\ result'[q] = result[q],
         UNCHANGED rpcVars,
         \/ pc'[p] \notin {"idle", "done"} /\ result'[p] = "none"
         \/ /\ pc'[p] = "done" /\ result'[p] # "none"
            /\ result'[p] = "ok" /\ p # Builder => p \in Calls /\ Abstract!LastApplied(p)
  PROVE  [Abstract!Next]_(Abstract!vars)
<1> USE DEF rpcVars
<1>1. CallAsked' = CallAsked /\ CallApplied' = CallApplied
  BY DEF CallAsked, CallApplied
<1>2. CASE p \notin Calls \/ pc'[p] \notin {"idle", "done"}
  <2>1. CallPhase' = CallPhase
    BY <1>2 DEF CallPhase, Procs
  <2>2. CallOutcome' = CallOutcome
    BY <1>2 DEF CallOutcome, Procs
  <2> QED
    BY <1>1, <2>1, <2>2 DEF Abstract!vars
<1>3. CASE p \in Calls /\ pc'[p] = "done"
  <2> DEFINE o == IF result'[p] = "ok" THEN "ok" ELSE "failed"
  <2>1. CallPhase' = [CallPhase EXCEPT ![p] = "finished"]
    BY <1>3 DEF CallPhase, Procs, TypeOK
  <2>2. CallOutcome' = [CallOutcome EXCEPT ![p] = o]
    BY <1>3 DEF CallOutcome, Procs, TypeOK
  <2>3. CallPhase[p] = "running"
    BY <1>3 DEF CallPhase
  <2>4. o = "ok" => Abstract!LastApplied(p)
    BY <1>3, CallsAssumption
  <2>5. Abstract!Finish(p, o)
    BY <1>1, <2>1, <2>2, <2>3, <2>4 DEF Abstract!Finish
  <2> QED
    BY <1>3, <2>5 DEF Abstract!Next
<1> QED
  BY <1>2, <1>3

LEMMA StepRefines ==
  ASSUME TypeOK, TypeOK', ResultsFinal, RequestsOrdered, NEW p \in Procs, Step(p)
  PROVE  [Abstract!Next]_(Abstract!vars)
<1>a. pc[p] \notin {"idle", "done"} /\ result[p] = "none"
  BY DEF ResultsFinal, Step, GetClientFails, GetClient, Send, ReplyOk, OtherError,
     ConnectionError, RpcInterrupted, ReconnectRefused, TearDown, DialOk, DialFail,
     BackoffElapsed, BackoffCancelled, Install
<1>1. CASE Send(p)
  <2>1. p \in Calls
    BY <1>1 DEF Send, ResultsFinal, Procs
  <2>2. CallPhase' = CallPhase /\ CallOutcome' = CallOutcome /\ CallApplied' = CallApplied
    BY <1>1, <1>a DEF Send, Goto, CallPhase, CallOutcome, CallApplied, TypeOK, Procs
  <2>3. CallPhase[p] = "running"
    BY <1>a, <2>1 DEF CallPhase
  <2>4. sent' = sent \cup {<<p, round[p]>>} /\ round[p] \in {1, 2}
    BY <1>1 DEF Send, TypeOK
  <2>5. CallAsked' = [CallAsked EXCEPT ![p] = @ \cup {round[p]}]
    BY <2>1, <2>4 DEF CallAsked
  <2>6. \A a \in CallAsked[p] : a < round[p]
    <3>1. <<p, round[p]>> \notin sent
      BY <1>1 DEF Send, RequestsOrdered
    <3>2. \A a \in CallAsked[p] : a \in {1, 2} /\ <<p, a>> \in sent
      BY <2>1 DEF CallAsked
    <3>3. \A a \in {1, 2} : <<p, a>> \in sent => a <= round[p]
      BY DEF RequestsOrdered
    <3>4. ASSUME NEW a \in CallAsked[p] PROVE a < round[p]
      <4>1. a \in {1, 2} /\ a <= round[p]
        BY <3>2, <3>3
      <4>2. a # round[p]
        BY <3>1, <3>2
      <4> QED
        BY <4>1, <4>2, <2>4
    <3> QED
      BY <3>4
  <2>7. Abstract!Ask(p, round[p])
    BY <2>2, <2>3, <2>5, <2>6 DEF Abstract!Ask
  <2> QED
    BY <2>1, <2>4, <2>7 DEF Abstract!Next
<1>2. CASE ReplyOk(p)
  <2>1. p \in Calls
    BY <1>2 DEF ReplyOk, ResultsFinal, Procs
  <2>2. round[p] \in CallApplied[p]
    BY <1>2, <2>1 DEF ReplyOk, CallApplied, TypeOK
  <2>3. \A a \in CallAsked[p] : a <= round[p]
    BY <2>1 DEF CallAsked, RequestsOrdered, Procs
  <2>4. Abstract!LastApplied(p)
    BY <2>2, <2>3 DEF Abstract!LastApplied
  <2> QED
    BY <1>2, <1>a, <2>1, <2>4, QuietStep DEF ReplyOk, Return, Goto, TypeOK
<1>3. CASE Install(p)
  BY <1>3, <1>a, QuietStep DEF Install, Return, Goto, TypeOK
<1>4. CASE ~Send(p) /\ ~ReplyOk(p) /\ ~Install(p)
  <2>1. UNCHANGED rpcVars
    BY <1>4 DEF Step, GetClientFails, GetClient, OtherError, ConnectionError,
       ReconnectRefused, TearDown, DialOk, DialFail, BackoffElapsed, BackoffCancelled
  <2>2. \A q \in Procs \ {p} : pc'[q] = pc[q] /\ result'[q] = result[q]
    BY <1>4 DEF Step, GetClientFails, GetClient, OtherError, ConnectionError,
       ReconnectRefused, TearDown, DialOk, DialFail, BackoffElapsed, BackoffCancelled,
       Return, Goto, TypeOK
  <2>3. \/ pc'[p] \notin {"idle", "done"} /\ result'[p] = "none"
        \/ pc'[p] = "done" /\ result'[p] \notin {"none", "ok"}
    BY <1>4, <1>a DEF Step, GetClientFails, GetClient, OtherError, ConnectionError,
       ReconnectRefused, TearDown, DialOk, DialFail, BackoffElapsed, BackoffCancelled,
       Return, Goto, TypeOK
  <2> QED
    BY <1>a, <2>1, <2>2, <2>3, QuietStep
<1> QED
  BY <1>1, <1>2, <1>3, <1>4

\* Every behaviour of the retrying client is, seen by its callers, one of
\* AtMostTwice.
THEOREM Refinement == Spec => ImplementsAtMostTwice
<1>1. Init => Abstract!Init
  BY CallsAssumption
  DEF Init, Abstract!Init, CallPhase, CallAsked, CallApplied, CallOutcome, Procs
<1>2. TypeOK /\ TypeOK' /\ CauseInv /\ RequestsOrdered /\ [Next]_vars
        => [Abstract!Next]_(Abstract!vars)
  <2> SUFFICES ASSUME TypeOK, TypeOK', CauseInv, RequestsOrdered, [Next]_vars
               PROVE  [Abstract!Next]_(Abstract!vars)
    OBVIOUS
  <2>1. ASSUME NEW p \in Procs, Begin(p) PROVE Abstract!Begin(p) /\ p \in Calls
    <3>1. CallPhase' = [CallPhase EXCEPT ![p] = "running"]
      BY <2>1 DEF Begin, Goto, CallPhase, TypeOK, Procs
    <3>2. CallPhase[p] = "idle"
      BY <2>1 DEF Begin, CallPhase
    <3>3. UNCHANGED <<CallAsked, CallApplied, CallOutcome>>
      BY <2>1 DEF Begin, CallAsked, CallApplied, CallOutcome, rpcVars
    <3> QED
      BY <2>1, <3>1, <3>2, <3>3 DEF Begin, Abstract!Begin
  <2>2. ASSUME NEW p \in Procs, Step(p) PROVE [Abstract!Next]_(Abstract!vars)
    BY <2>2, StepRefines DEF CauseInv
  <2>3. CASE UNCHANGED <<pc, result, sent, executed>>
    BY <2>3 DEF Abstract!vars, CallPhase, CallAsked, CallApplied, CallOutcome
  <2>4. ASSUME NEW p \in Procs, NEW r \in {1, 2}, Execute(p, r)
        PROVE  [Abstract!Next]_(Abstract!vars)
    <3>1. CallPhase' = CallPhase /\ CallAsked' = CallAsked /\ CallOutcome' = CallOutcome
      BY <2>4 DEF Execute, CallPhase, CallAsked, CallOutcome, procVars
    <3>2. executed' = executed \cup {<<p, r>>} /\ <<p, r>> \in sent \ executed
      BY <2>4 DEF Execute
    <3>3. CASE p \in Calls
      <4>1. CallApplied' = [CallApplied EXCEPT ![p] = @ \cup {r}]
        BY <3>2, <3>3 DEF CallApplied
      <4>2. r \in CallAsked[p] \ CallApplied[p]
        BY <3>2, <3>3 DEF CallAsked, CallApplied
      <4>3. Abstract!Apply(p, r)
        BY <3>1, <4>1, <4>2 DEF Abstract!Apply
      <4> QED
        BY <3>3, <4>3 DEF Abstract!Next
    <3>4. CASE p \notin Calls
      <4>1. CallApplied' = CallApplied
        BY <3>2, <3>4 DEF CallApplied
      <4> QED
        BY <3>1, <4>1 DEF Abstract!vars
    <3> QED
      BY <3>3, <3>4
  <2>5. CASE Close \/ Outage \/ Recover \/ (\E p \in Procs : CancelContext(p)) \/ UNCHANGED vars
    BY <2>3, <2>5 DEF Close, Outage, Recover, CancelContext, vars, procVars, rpcVars
  <2> QED
    BY <2>1, <2>2, <2>4, <2>5 DEF Next, Environment, Terminated, Abstract!Next
<1> QED
  BY <1>1, <1>2, Typing, CauseAlways, RequestsAlways, PTL
  DEF Spec, Abstract!Spec, ImplementsAtMostTwice

------------------------------------------------------------------------------
(* Orphans.  An open connection that is neither installed nor about to be  *)
(* is the mark of two operations that reconnected at the same time.  When  *)
(* they never overlap, the one that dials has found rc.client empty, so    *)
(* its install overwrites nothing.                                         *)

OneAtATime == \A p, q \in Procs : Running(p) /\ Running(q) => p = q

\* The only running process, if it reconnects, has torn rc.client down.
EmptyWhileDialling ==
  \A p \in Procs : pc[p] \in {"dial", "backoff", "install"} => client = nil

OrphanInv == EmptyWhileDialling /\ NoOrphan

\* A step that touches no connection and does not begin to reconnect.
LEMMA OrphanKept ==
  ASSUME OrphanInv, NEW p \in Procs, client' = client, open' \subseteq open,
         pc[p] # "install",
         pc'[p] \in {"dial", "backoff", "install"} => pc[p] \in {"dial", "backoff"},
         \A q \in Procs \ {p} : pc'[q] = pc[q] /\ held'[q] = held[q]
  PROVE  OrphanInv'
<1>1. EmptyWhileDialling'
  BY DEF OrphanInv, EmptyWhileDialling
<1>2. NoOrphan'
  BY DEF OrphanInv, NoOrphan
<1> QED
  BY <1>1, <1>2 DEF OrphanInv

LEMMA OrphanStep ==
  ASSUME TypeOK, OneAtATime, OrphanInv, NEW p \in Procs, Step(p)
  PROVE  OrphanInv'
<1>a. /\ Running(p)
      /\ \A q \in Procs \ {p} : pc'[q] = pc[q] /\ held'[q] = held[q]
  BY DEF Running, Step, GetClientFails, GetClient, Send, ReplyOk, OtherError, ConnectionError,
     RpcInterrupted, ReconnectRefused, TearDown, DialOk, DialFail, BackoffElapsed,
     BackoffCancelled, Install, Return, Goto, TypeOK
<1>b. \A q \in Procs \ {p} : pc[q] \notin {"dial", "backoff", "install"}
  BY <1>a DEF OneAtATime, Running
<1>1. CASE TearDown(p)
  <2>1. client' = nil /\ open' = open \ {client} /\ pc[p] = "reconnect"
    BY <1>1 DEF TearDown
  <2>2. open' = {}
    BY <1>b, <2>1 DEF OrphanInv, NoOrphan
  <2> QED
    BY <2>1, <2>2 DEF OrphanInv, EmptyWhileDialling, NoOrphan
<1>2. CASE DialOk(p)
  <2>1. /\ client' = client /\ client = nil /\ open' = open \cup {dials + 1}
        /\ pc'[p] = "install" /\ held'[p] = dials + 1
    BY <1>2 DEF DialOk, Goto, TypeOK, rcVars, OrphanInv, EmptyWhileDialling
  <2>2. pc[p] = "dial"
    BY <1>2 DEF DialOk
  <2>3. open \subseteq {client}
    BY <1>b, <2>2 DEF OrphanInv, NoOrphan
  <2>4. EmptyWhileDialling'
    BY <2>1 DEF EmptyWhileDialling
  <2>5. NoOrphan'
    BY <2>1, <2>3 DEF NoOrphan
  <2> QED
    BY <2>4, <2>5 DEF OrphanInv
<1>3. CASE Install(p)
  <2>1. client' = held[p] /\ open' = open /\ pc[p] = "install" /\ client = nil
    BY <1>3 DEF Install, connVars, OrphanInv, EmptyWhileDialling
  <2>2. pc'[p] \notin {"dial", "backoff", "install"}
    BY <1>3 DEF Install, Return, Goto, TypeOK
  <2>3. open \subseteq {held[p]}
    BY <1>b, <2>1 DEF OrphanInv, NoOrphan, TypeOK, nil
  <2>4. EmptyWhileDialling'
    BY <1>a, <1>b, <2>2 DEF EmptyWhileDialling
  <2>5. NoOrphan'
    BY <2>1, <2>3 DEF NoOrphan
  <2> QED
    BY <2>4, <2>5 DEF OrphanInv
<1>4. CASE ~TearDown(p) /\ ~DialOk(p) /\ ~Install(p)
  <2>1. /\ client' = client /\ open' = open /\ pc[p] # "install"
        /\ pc'[p] \in {"dial", "backoff", "install"} => pc[p] \in {"dial", "backoff"}
    BY <1>4 DEF Step, GetClientFails, GetClient, Send, ReplyOk, OtherError, ConnectionError,
       RpcInterrupted, ReconnectRefused, DialFail, BackoffElapsed, BackoffCancelled,
       Return, Goto, TypeOK, rcVars, connVars
  <2> QED
    BY <1>a, <2>1, OrphanKept
<1> QED
  BY <1>1, <1>2, <1>3, <1>4

\* In every execution in which operations do not overlap, whatever Close and
\* the daemon do, each open connection is installed or about to be.
THEOREM NoOrphanOneAtATime == Spec /\ []OneAtATime => []NoOrphan
<1>1. Init => OrphanInv
  BY DEF Init, OrphanInv, EmptyWhileDialling, NoOrphan
<1>2. TypeOK /\ OneAtATime /\ OrphanInv /\ [Next]_vars => OrphanInv'
  <2> SUFFICES ASSUME TypeOK, OneAtATime, OrphanInv, [Next]_vars PROVE OrphanInv'
    OBVIOUS
  <2>1. ASSUME NEW p \in Procs, Begin(p) PROVE OrphanInv'
    BY <2>1, OrphanKept DEF Begin, Goto, TypeOK, rcVars, connVars
  <2>2. ASSUME NEW p \in Procs, Step(p) PROVE OrphanInv'
    BY <2>2, OrphanStep
  <2>3. CASE Close
    BY <2>3 DEF Close, OrphanInv, EmptyWhileDialling, NoOrphan, procVars
  <2>4. CASE Environment
    BY <2>4 DEF Environment, Outage, Recover, CancelContext, Execute, OrphanInv,
       EmptyWhileDialling, NoOrphan, rcVars, connVars, procVars
  <2>5. CASE UNCHANGED vars
    BY <2>5 DEF vars, OrphanInv, EmptyWhileDialling, NoOrphan, rcVars, connVars, procVars
  <2> QED
    BY <2>1, <2>2, <2>3, <2>4, <2>5 DEF Next, Terminated
<1>3. OrphanInv => NoOrphan
  BY DEF OrphanInv
<1> QED
  BY <1>1, <1>2, <1>3, Typing, PTL DEF Spec

\* No operation begins while another runs, nor before the constructor ended.
LEMMA BeginWaits ==
  ASSUME MaxConcurrent <= 1, CauseInv, OneAtATime, NEW p \in Procs, Begin(p)
  PROVE  \A q \in Procs : ~Running(q)
<1>1. Built /\ pc[Builder] = "done"
  BY DEF Begin, Built, CauseInv, ResultsFinal, Procs
<1> DEFINE R == {c \in Calls : Running(c)}
<1>2. Cardinality(R) < 1
  <2>1. Cardinality(R) < MaxConcurrent
    BY DEF Begin
  <2>2. IsFiniteSet(R)
    <3>1. CASE R = {}
      BY <3>1, FS_EmptySet
    <3>2. CASE R # {}
      <4>1. PICK c \in R : TRUE
        BY <3>2
      <4>2. R = {c}
        BY <4>1 DEF OneAtATime, Procs
      <4> QED
        BY <4>2, FS_Singleton
    <3> QED
      BY <3>1, <3>2
  <2>3. Cardinality(R) \in Nat
    BY <2>2, FS_CardinalityType
  <2> QED
    BY <2>1, <2>3, BoundsAssumption
<1>3. R = {}
  <2> SUFFICES ASSUME NEW c \in R PROVE FALSE
    OBVIOUS
  <2>1. R = {c}
    BY DEF OneAtATime, Procs
  <2>2. Cardinality(R) = 1
    BY <2>1, FS_Singleton
  <2> QED
    BY <1>2, <2>2
<1> QED
  BY <1>1, <1>3 DEF Running, Procs

\* A program whose operations follow one another leaves no connection open
\* behind it: every open one is installed or about to be.
THEOREM SequentialLeavesNoOrphan ==
  ASSUME MaxConcurrent <= 1
  PROVE  Spec => []NoOrphan
<1>1. Init => OneAtATime
  BY DEF Init, OneAtATime, Running, Procs
<1>2. TypeOK /\ CauseInv /\ OneAtATime /\ [Next]_vars => OneAtATime'
  <2> SUFFICES ASSUME TypeOK, CauseInv, OneAtATime, [Next]_vars PROVE OneAtATime'
    OBVIOUS
  <2>1. ASSUME NEW p \in Procs, Begin(p) PROVE OneAtATime'
    <3>1. \A q \in Procs : ~Running(q)
      BY <2>1, BeginWaits
    <3> QED
      BY <2>1, <3>1 DEF Begin, Goto, OneAtATime, Running, TypeOK
  <2>2. ASSUME NEW p \in Procs, Step(p) PROVE OneAtATime'
    <3>1. /\ Running(p) /\ \A q \in Procs \ {p} : pc'[q] = pc[q]
      BY <2>2 DEF Running, Step, GetClientFails, GetClient, Send, ReplyOk, OtherError,
         ConnectionError, RpcInterrupted, ReconnectRefused, TearDown, DialOk, DialFail,
         BackoffElapsed, BackoffCancelled, Install, Return, Goto, TypeOK
    <3> QED
      BY <3>1 DEF OneAtATime, Running
  <2>3. CASE UNCHANGED pc
    BY <2>3 DEF OneAtATime, Running
  <2> QED
    BY <2>1, <2>2, <2>3 DEF Next, Close, Environment, Outage, Recover, CancelContext,
       Execute, Terminated, vars, procVars
<1>3. Spec => []OneAtATime
  BY <1>1, <1>2, Typing, CauseAlways, PTL DEF Spec
<1> QED
  BY <1>3, NoOrphanOneAtATime, PTL

------------------------------------------------------------------------------
(* Close and requests.                                                     *)

\* A call that getClient has not let in, or has turned away, for good.
ShutOut(p) ==
  /\ closed /\ pc[p] \in {"idle", "get", "done"}
  /\ <<p, 1>> \notin sent /\ <<p, 2>> \notin sent

LEMMA ShutOutKept ==
  ASSUME TypeOK, NEW p \in Calls, ShutOut(p), [Next]_vars
  PROVE  ShutOut(p)'
<1>1. ASSUME NEW q \in Procs, Begin(q) PROVE ShutOut(p)'
  BY <1>1 DEF Begin, Goto, ShutOut, TypeOK, Procs, rcVars, rpcVars
<1>2. ASSUME NEW q \in Procs, Step(q) PROVE ShutOut(p)'
  <2>1. closed' = closed
    BY <1>2 DEF Step, GetClientFails, GetClient, Send, ReplyOk, OtherError, ConnectionError,
       ReconnectRefused, TearDown, DialOk, DialFail, BackoffElapsed, BackoffCancelled,
       Install, rcVars
  <2>2. CASE q = p
    <3>1. GetClientFails(p)
      BY <1>2, <2>2 DEF ShutOut, Step, GetClient, Send, ReplyOk, OtherError, ConnectionError,
         RpcInterrupted, ReconnectRefused, TearDown, DialOk, DialFail, BackoffElapsed,
         BackoffCancelled, Install
    <3> QED
      BY <2>1, <3>1 DEF GetClientFails, Return, Goto, ShutOut, TypeOK, Procs, rpcVars
  <2>3. CASE q # p
    <3>1. pc'[p] = pc[p]
      BY <1>2, <2>3 DEF Step, GetClientFails, GetClient, Send, ReplyOk, OtherError,
         ConnectionError, ReconnectRefused, TearDown, DialOk, DialFail, BackoffElapsed,
         BackoffCancelled, Install, Return, Goto, TypeOK, Procs
    <3>2. sent' \subseteq sent \cup {<<q, round[q]>>}
      BY <1>2 DEF Step, GetClientFails, GetClient, Send, ReplyOk, OtherError, ConnectionError,
         ReconnectRefused, TearDown, DialOk, DialFail, BackoffElapsed, BackoffCancelled,
         Install, rpcVars
    <3> QED
      BY <2>1, <2>3, <3>1, <3>2 DEF ShutOut
  <2> QED
    BY <2>2, <2>3
<1>3. CASE Close
  BY <1>3 DEF Close, ShutOut, procVars, rpcVars
<1>4. CASE Environment
  BY <1>4 DEF Environment, Outage, Recover, CancelContext, Execute, ShutOut, rcVars, procVars, rpcVars
<1>5. CASE UNCHANGED vars
  BY <1>5 DEF vars, ShutOut, rcVars, procVars, rpcVars
<1> QED
  BY <1>1, <1>2, <1>3, <1>4, <1>5 DEF Next, Terminated

\* Once the client is closed, no call that has not passed getClient ever
\* sends a request, although a connection may still be installed later.
THEOREM ClosedSendsNothing == Spec => NoRequestAfterClose
<1>1. ASSUME NEW p \in Calls
      PROVE  Spec => [](closed /\ pc[p] \in {"idle", "get"} /\ round[p] = 1 =>
                          [](<<p, 1>> \notin sent /\ <<p, 2>> \notin sent))
  <2>1. RequestsOrdered /\ closed /\ pc[p] \in {"idle", "get"} /\ round[p] = 1 => ShutOut(p)
    BY DEF RequestsOrdered, ShutOut, Procs
  <2>2. TypeOK /\ ShutOut(p) /\ [Next]_vars => ShutOut(p)'
    BY ShutOutKept
  <2>3. ShutOut(p) => <<p, 1>> \notin sent /\ <<p, 2>> \notin sent
    BY DEF ShutOut
  <2> QED
    BY <2>1, <2>2, <2>3, Typing, RequestsAlways, PTL DEF Spec
<1> QED
  BY <1>1 DEF NoRequestAfterClose

------------------------------------------------------------------------------
(* When Close is the end of reconnecting.                                  *)

Connecting(p) == pc[p] \in {"dial", "backoff", "install"}
Settled       == closed /\ \A p \in Procs : ~Connecting(p)
Drained       == Settled /\ open = {}

LEMMA SettledKept ==
  ASSUME TypeOK, Settled, [Next]_vars
  PROVE  /\ Settled' /\ dials' = dials /\ client' = client
         /\ open' \subseteq open
<1>1. ASSUME NEW p \in Procs, Begin(p)
      PROVE  UNCHANGED <<closed, dials, client, open>> /\ \A q \in Procs : ~Connecting(q)'
  <2>1. UNCHANGED <<closed, dials, client, open>> /\ pc' = [pc EXCEPT ![p] = "get"]
    BY <1>1 DEF Begin, Goto, rcVars, connVars
  <2> QED
    BY <2>1 DEF Settled, Connecting, TypeOK
<1>2. ASSUME NEW p \in Procs, Step(p)
      PROVE  UNCHANGED <<closed, dials, client, open>> /\ \A q \in Procs : ~Connecting(q)'
  <2>1. \/ GetClientFails(p) \/ Send(p) \/ ReplyOk(p) \/ OtherError(p)
        \/ ConnectionError(p) \/ ReconnectRefused(p)
    BY <1>2 DEF Step, Settled, Connecting, GetClient, TearDown, DialOk, DialFail,
       BackoffElapsed, BackoffCancelled, Install
  <2>2. /\ UNCHANGED <<closed, dials, client, open>>
        /\ \E place \in {"wait", "done", "reconnect"} : pc' = [pc EXCEPT ![p] = place]
    BY <2>1 DEF GetClientFails, Send, ReplyOk, OtherError, ConnectionError, ReconnectRefused,
       Return, Goto, rcVars, connVars
  <2> QED
    BY <2>2 DEF Settled, Connecting, TypeOK
<1>3. CASE Close
  <2>1. closed' /\ UNCHANGED <<dials, client, pc>> /\ open' \subseteq open
    BY <1>3 DEF Close, procVars
  <2> QED
    BY <2>1 DEF Settled, Connecting
<1>4. CASE Environment \/ UNCHANGED vars
  <2>1. UNCHANGED <<closed, dials, client, open, pc>>
    BY <1>4 DEF Environment, Outage, Recover, CancelContext, Execute, vars, rcVars, connVars,
       procVars
  <2> QED
    BY <2>1 DEF Settled, Connecting
<1> QED
  BY <1>1, <1>2, <1>3, <1>4 DEF Next, Terminated, Settled

\* "No reconnection will be attempted" holds from any moment at which the
\* client is closed and no process is in connect: what a Close leaves under
\* way is all that may still be dialled.
THEOREM QuietCloseIsFinal == Spec => [](Settled => NoReconnectionAfterClose)
<1>1. TypeOK /\ Settled /\ [Next]_vars => Settled' /\ [closed => dials' = dials]_vars
  BY SettledKept
<1> QED
  BY <1>1, Typing, PTL DEF Spec, NoReconnectionAfterClose

\* For operations that do not overlap, a Close that finds nobody in connect
\* leaves no connection open, then or later.
THEOREM QuietCloseLeavesNothing ==
  Spec /\ []OneAtATime =>
    /\ [][Close /\ (\A p \in Procs : ~Connecting(p)) => Drained']_vars
    /\ [](Drained => []Drained)
<1>1. NoOrphan => [Close /\ (\A p \in Procs : ~Connecting(p)) => Drained']_vars
  <2> SUFFICES ASSUME NoOrphan, Close, \A p \in Procs : ~Connecting(p)
               PROVE  Drained'
    OBVIOUS
  <2>1. closed' /\ open' = open \ {client} /\ UNCHANGED pc
    BY DEF Close, procVars
  <2>2. \A c \in open : c = client
    BY DEF NoOrphan, Connecting
  <2> QED
    BY <2>1, <2>2 DEF Drained, Settled, Connecting
<1>2. TypeOK /\ Drained /\ [Next]_vars => Drained'
  BY SettledKept DEF Drained
<1>3. Spec /\ []OneAtATime =>
        [][Close /\ (\A p \in Procs : ~Connecting(p)) => Drained']_vars
  BY <1>1, NoOrphanOneAtATime, PTL
<1>4. Spec => [](Drained => []Drained)
  BY <1>2, Typing, PTL DEF Spec
<1> QED
  BY <1>3, <1>4, PTL

------------------------------------------------------------------------------
(* When getClient never refuses.                                           *)

ContextsLive == \A p \in Procs : ~ctxDone[p]

\* Calls come after the constructor, and none was refused or gave up.
Served ==
  \A p \in Calls : /\ pc[p] # "idle" => Built
                   /\ result[p] \notin {"notConnected", "connectFailed", "ctxDone"}

\* A step of p that returns none of the three results.
LEMMA ServedKept ==
  ASSUME TypeOK, CauseInv, Served, NEW p \in Procs, Step(p),
         result'[p] \notin {"notConnected", "connectFailed", "ctxDone"}
  PROVE  Served'
<1>1. /\ pc[p] \notin {"idle", "done"}
      /\ \A q \in Procs \ {p} : pc'[q] = pc[q] /\ result'[q] = result[q]
  BY DEF Step, GetClientFails, GetClient, Send, ReplyOk, OtherError, ConnectionError,
     RpcInterrupted, ReconnectRefused, TearDown, DialOk, DialFail, BackoffElapsed,
     BackoffCancelled, Install, Return, Goto, TypeOK
<1>2. Built => Built'
  <2>1. CASE p = Builder
    BY <1>1, <2>1 DEF Built, CauseInv, ResultsFinal, Procs
  <2>2. CASE p # Builder
    BY <1>1, <2>2 DEF Built, Procs
  <2> QED
    BY <2>1, <2>2
<1>3. \A q \in Calls : pc'[q] # "idle" => pc[q] # "idle"
  BY <1>1 DEF Procs
<1> QED
  BY <1>1, <1>2, <1>3 DEF Served, Procs

LEMMA ServedNext ==
  ASSUME MaxRetries = 0, TypeOK, CauseInv, Served, OneAtATime, ContextsLive, [Next]_vars
  PROVE  Served'
<1>1. ASSUME NEW p \in Procs, Begin(p) PROVE Served'
  <2>1. Built /\ pc' = [pc EXCEPT ![p] = "get"] /\ result' = result
    BY <1>1 DEF Begin, Goto
  <2> QED
    BY <2>1 DEF Served, Built
<1>2. ASSUME NEW p \in Procs, Step(p) PROVE Served'
  <2>1. CASE GetClientFails(p)
    <3>1. pc[p] = "get" /\ p \in Calls
      BY <2>1 DEF GetClientFails, CauseInv, ResultsFinal, Procs
    <3>2. Built /\ Running(p)
      BY <3>1 DEF Served, Running
    <3>3. ASSUME client = nil PROVE FALSE
      <4>1. PICK q \in Calls : \/ pc[q] \in {"dial", "backoff", "install"}
                              \/ result[q] \in {"connectFailed", "ctxDone"}
        BY <3>2, <3>3 DEF CauseInv, DisconnectedHasCause
      <4>2. pc[q] \in {"dial", "backoff", "install"}
        BY <4>1 DEF Served
      <4>3. q = p
        BY <3>2, <4>2 DEF OneAtATime, Running, Procs
      <4> QED
        BY <3>1, <4>2, <4>3
    <3>4. result'[p] = "closed"
      BY <2>1, <3>3 DEF GetClientFails, Return, TypeOK
    <3> QED
      BY <1>2, <3>4, ServedKept
  <2>2. CASE DialFail(p)
    <3>1. TriesAgain(p) /\ result' = result
      BY <2>2 DEF DialFail, TriesAgain
    <3>2. result'[p] = "none"
      BY <2>2, <3>1 DEF DialFail, CauseInv, ResultsFinal
    <3> QED
      BY <1>2, <3>2, ServedKept
  <2>3. CASE ~GetClientFails(p) /\ ~DialFail(p)
    <3>1. pc[p] # "done" => result[p] = "none"
      BY DEF CauseInv, ResultsFinal
    <3>2. ~BackoffCancelled(p)
      BY DEF BackoffCancelled, ContextsLive
    <3>3. result'[p] \notin {"notConnected", "connectFailed", "ctxDone"}
      BY <1>2, <2>3, <3>1, <3>2 DEF Step, GetClient, Send, ReplyOk, OtherError, ConnectionError,
         RpcInterrupted, ReconnectRefused, TearDown, DialOk, BackoffElapsed, Install, Return,
         TypeOK
    <3> QED
      BY <1>2, <3>3, ServedKept
  <2> QED
    BY <2>1, <2>2, <2>3
<1>3. CASE Close \/ Environment \/ UNCHANGED vars
  <2>1. pc' = pc /\ result' = result
    BY <1>3 DEF Close, Environment, Outage, Recover, CancelContext, Execute, vars, procVars
  <2> QED
    BY <2>1 DEF Served, Built
<1> QED
  BY <1>1, <1>2, <1>3 DEF Next, Terminated

\* getClient keeps the word of its comment for a program that makes one call
\* at a time, sets no limit to the retries and lets no context end: each of
\* its calls finds a connection, whatever outages there are.
THEOREM UnlimitedRetriesServe ==
  ASSUME MaxRetries = 0
  PROVE  Spec /\ []OneAtATime /\ []ContextsLive => []GetClientReconnects
<1>1. Init => Served
  BY CallsAssumption DEF Init, Served, Procs
<1>2. TypeOK /\ CauseInv /\ Served /\ OneAtATime /\ ContextsLive /\ [Next]_vars => Served'
  BY ServedNext
<1>3. Served => GetClientReconnects
  BY DEF Served, GetClientReconnects
<1> QED
  BY <1>1, <1>2, <1>3, Typing, CauseAlways, PTL DEF Spec
==============================================================================
