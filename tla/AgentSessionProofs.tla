------------------------- MODULE AgentSessionProofs --------------------------
(***************************************************************************)
(* Theorems about AgentSession, for any number of operations of any kind.  *)
(***************************************************************************)
EXTENDS AgentSession, TLAPS

\* The variables keep their types, and only a Register or a Subscribe in its
\* RPC holds as.mu from one step to the next.
THEOREM AgentTyping == Spec => []TypeOK
<1>1. Init => TypeOK
  <2> SUFFICES ASSUME Init PROVE TypeOK
    OBVIOUS
  <2>1. NotRead \in Saw
    BY DEF NotRead, Saw
  <2>2. saw \in [Ops -> Saw]
    BY <2>1 DEF Init
  <2>3. registered \in BOOLEAN /\ done \in BOOLEAN /\ panicked \in BOOLEAN
    BY DEF Init
  <2> QED
    BY <2>2, <2>3 DEF Init, TypeOK, Places
<1>2. TypeOK /\ [Next]_vars => TypeOK'
  <2> SUFFICES ASSUME TypeOK, [Next]_vars PROVE TypeOK'
    OBVIOUS
  <2> USE NoneAssumption DEF TypeOK, Goto, Places, Saw, fields
  <2>1. ASSUME NEW p \in Ops, RegisterStart(p) PROVE TypeOK'
    BY <2>1 DEF RegisterStart
  <2>2. ASSUME NEW p \in Ops, RegisterFails(p) PROVE TypeOK'
    BY <2>2 DEF RegisterFails
  <2>3. ASSUME NEW p \in Ops, RegisterOk(p) PROVE TypeOK'
    BY <2>3 DEF RegisterOk
  <2>4. ASSUME NEW p \in Ops, SubscribeStart(p) PROVE TypeOK'
    BY <2>4 DEF SubscribeStart
  <2>5. ASSUME NEW p \in Ops, SubscribeFails(p) PROVE TypeOK'
    BY <2>5 DEF SubscribeFails
  <2>6. ASSUME NEW p \in Ops, SubscribeOk(p) PROVE TypeOK'
    BY <2>6 DEF SubscribeOk
  <2>7. ASSUME NEW p \in Ops, CloseStart(p) \/ CloseReads(p) PROVE TypeOK'
    BY <2>7 DEF CloseStart, CloseReads
  <2>8. ASSUME NEW p \in Ops, CloseCancels(p) PROVE TypeOK'
    BY <2>8 DEF CloseCancels
  <2>9. ASSUME NEW p \in Ops, CloseWaits(p) PROVE TypeOK'
    BY <2>9 DEF CloseWaits
  <2>10. ASSUME NEW p \in Ops, CloseClears(p) PROVE TypeOK'
    BY <2>10 DEF CloseClears
  <2>11. ASSUME NEW p \in Ops, Heartbeat(p) PROVE TypeOK'
    BY <2>11 DEF Heartbeat, HeartbeatSends, HeartbeatReturns, HeartbeatExits
  <2>12. ASSUME NEW p \in Ops, Reader(p) PROVE TypeOK'
    BY <2>12 DEF Reader, ReaderRecv, ReaderForwards, ReaderEnds
  <2>13. CASE UNCHANGED vars
    BY <2>13 DEF vars
  <2> QED
    BY <2>1, <2>2, <2>3, <2>4, <2>5, <2>6, <2>7, <2>8, <2>9, <2>10, <2>11,
       <2>12, <2>13 DEF Next, Answer, Continue, Terminated
<1> QED
  BY <1>1, <1>2, PTL DEF Spec

------------------------------------------------------------------------------
(* What the fields say of the heartbeat loops.                             *)

Started(h) == heartbeat[h] # "none"

\* Every cancel function is that of a loop that was started, a loop is only
\* started by a Register that returned, and a loop exits only when cancelled.
CancelsKnown ==
  /\ cancelHB # None => Started(cancelHB)
  /\ registered => cancelHB # None
  /\ \A p \in Ops : saw[p].hb # None => Started(saw[p].hb)
  /\ \A p \in Ops : saw[p].registered => saw[p].hb # None
  /\ \A h \in hbCancelled : Started(h)
  /\ \A h \in Ops : heartbeat[h] = "gone" => h \in hbCancelled
  /\ \A h \in Ops : Started(h) => pc[h] = "returned"

\* While the session is registered its loop is cancelled only by a Close that
\* has yet to clear registered.
CancelledByCloser ==
  registered /\ cancelHB \in hbCancelled =>
    \E p \in Ops : Closing(p) /\ saw[p].hb = cancelHB

\* done is closed by a loop that exits, a panic takes two of them, and a Close
\* that waited finds it closed.
DoneKnown ==
  /\ done => \E h \in Ops : heartbeat[h] = "gone"
  /\ panicked => ~RegisteredOnce
  /\ \A p \in Ops : pc[p] \in {"clearing", "closed"} /\ saw[p].registered => done
  /\ \A p \in Ops : pc[p] = "closed" /\ saw[p].registered /\ RegisteredOnce => ~registered

AgentInv == CancelsKnown /\ CancelledByCloser /\ DoneKnown

\* A step of p that starts, cancels and ends no loop, and leaves the fields
\* and the snapshots alone.
LEMMA AgentInvKept ==
  ASSUME TypeOK, AgentInv, NEW p \in Ops,
         UNCHANGED <<registered, cancelHB, done, saw, hbCancelled, panicked>>,
         \A q \in Ops \ {p} : pc'[q] = pc[q],
         \A h \in Ops : heartbeat'[h] = heartbeat[h]
           \/ {heartbeat[h], heartbeat'[h]} = {"select", "rpc"},
         Started(p) => pc'[p] = pc[p],
         Closing(p) => Closing(p)',
         pc'[p] = "closed" => pc[p] = "closed",
         pc'[p] = "clearing" => done \/ pc[p] = "clearing" \/ ~saw[p].registered
  PROVE  AgentInv'
<1>1. \A h \in Ops : Started(h)' <=> Started(h)
  BY DEF Started
<1>2. RegisteredOnce' <=> RegisteredOnce
  BY <1>1 DEF RegisteredOnce, Started
<1>3. \A h \in Ops : heartbeat'[h] = "gone" <=> heartbeat[h] = "gone"
  OBVIOUS
<1>4. CancelsKnown'
  BY <1>1, <1>3 DEF AgentInv, CancelsKnown, TypeOK, Saw
<1>5. CancelledByCloser'
  <2> SUFFICES ASSUME registered, cancelHB \in hbCancelled
               PROVE  \E q \in Ops : Closing(q)' /\ saw[q].hb = cancelHB
    BY DEF CancelledByCloser
  <2>1. PICK q \in Ops : Closing(q) /\ saw[q].hb = cancelHB
    BY DEF AgentInv, CancelledByCloser
  <2>2. Closing(q)'
    BY <2>1 DEF Closing
  <2> QED
    BY <2>1, <2>2
<1>6. DoneKnown'
  BY <1>2, <1>3 DEF AgentInv, DoneKnown
<1> QED
  BY <1>4, <1>5, <1>6 DEF AgentInv

LEMMA AgentInvStep == TypeOK /\ TypeOK' /\ AgentInv /\ [Next]_vars => AgentInv'
<1> SUFFICES ASSUME TypeOK, TypeOK', AgentInv, [Next]_vars PROVE AgentInv'
  OBVIOUS
<1> USE NoneAssumption
<1>1. ASSUME NEW p \in Ops, RegisterStart(p) PROVE AgentInv'
  BY <1>1, AgentInvKept DEF RegisterStart, Goto, TypeOK, AgentInv, CancelsKnown, Closing
<1>2. ASSUME NEW p \in Ops, RegisterFails(p) PROVE AgentInv'
  BY <1>2, AgentInvKept DEF RegisterFails, Goto, TypeOK, AgentInv, CancelsKnown, Closing
<1>3. ASSUME NEW p \in Ops, RegisterOk(p) PROVE AgentInv'
  <2>1. /\ heartbeat' = [heartbeat EXCEPT ![p] = "select"]
        /\ cancelHB' = p /\ registered' /\ pc' = [pc EXCEPT ![p] = "returned"]
        /\ UNCHANGED <<done, saw, hbCancelled, panicked>> /\ pc[p] = "registering"
    BY <1>3 DEF RegisterOk, Goto
  <2>2. ~Started(p) /\ p \notin hbCancelled
    BY <2>1 DEF AgentInv, CancelsKnown
  <2>3. \A h \in Ops : Started(h)' <=> Started(h) \/ h = p
    BY <2>1 DEF Started, TypeOK
  <2>4. \A h \in Ops : heartbeat'[h] = "gone" <=> heartbeat[h] = "gone"
    BY <2>1, <2>2 DEF Started, TypeOK
  <2>5. CancelsKnown'
    BY <2>1, <2>2, <2>3, <2>4 DEF AgentInv, CancelsKnown, TypeOK, Saw
  <2>6. CancelledByCloser'
    BY <2>1, <2>2 DEF CancelledByCloser
  <2>7. RegisteredOnce' => \A h \in Ops : ~Started(h)
    BY <2>2, <2>3 DEF RegisteredOnce, Started
  <2>8. ASSUME RegisteredOnce', NEW q \in Ops, pc'[q] = "closed", saw'[q].registered
        PROVE  FALSE
    <3>1. saw[q].hb # None /\ Started(saw[q].hb) /\ saw[q].hb \in Ops
      BY <2>1, <2>8 DEF AgentInv, CancelsKnown, TypeOK, Saw
    <3> QED
      BY <2>7, <2>8, <3>1
  <2>9. RegisteredOnce' => RegisteredOnce
    BY <2>7 DEF RegisteredOnce, Started
  <2>10. DoneKnown'
    BY <2>1, <2>4, <2>8, <2>9 DEF AgentInv, DoneKnown, TypeOK
  <2> QED
    BY <2>5, <2>6, <2>10 DEF AgentInv
<1>4. ASSUME NEW p \in Ops, SubscribeStart(p) PROVE AgentInv'
  BY <1>4, AgentInvKept DEF SubscribeStart, Goto, TypeOK, AgentInv, CancelsKnown, Closing
<1>5. ASSUME NEW p \in Ops, SubscribeFails(p) PROVE AgentInv'
  BY <1>5, AgentInvKept DEF SubscribeFails, Goto, TypeOK, AgentInv, CancelsKnown, Closing
<1>6. ASSUME NEW p \in Ops, SubscribeOk(p) PROVE AgentInv'
  BY <1>6, AgentInvKept DEF SubscribeOk, Goto, TypeOK, AgentInv, CancelsKnown, Closing
<1>7. ASSUME NEW p \in Ops, CloseReads(p) PROVE AgentInv'
  <2>1. /\ saw' = [saw EXCEPT ![p] = [registered |-> registered, hb |-> cancelHB,
                                      stream |-> streamCancel]]
        /\ pc' = [pc EXCEPT ![p] = "cancelling"] /\ pc[p] = "locking"
        /\ UNCHANGED <<registered, cancelHB, done, hbCancelled, heartbeat, panicked>>
    BY <1>7 DEF CloseReads, Goto, fields
  <2>2. CancelsKnown'
    BY <2>1 DEF AgentInv, CancelsKnown, Started, TypeOK
  <2>3. CancelledByCloser'
    <3> SUFFICES ASSUME registered, cancelHB \in hbCancelled
                 PROVE  \E q \in Ops : Closing(q)' /\ saw'[q].hb = cancelHB
      BY <2>1 DEF CancelledByCloser
    <3>1. Closing(p)' /\ saw'[p].hb = cancelHB
      BY <2>1 DEF Closing, TypeOK
    <3> QED
      BY <3>1
  <2>4. DoneKnown'
    BY <2>1 DEF AgentInv, DoneKnown, RegisteredOnce, TypeOK
  <2> QED
    BY <2>2, <2>3, <2>4 DEF AgentInv
<1>8. ASSUME NEW p \in Ops, CloseCancels(p) PROVE AgentInv'
  <2>1. /\ hbCancelled' = hbCancelled \cup ({saw[p].hb} \ {None})
        /\ pc' = [pc EXCEPT ![p] = IF saw[p].registered THEN "awaiting" ELSE "clearing"]
        /\ pc[p] = "cancelling"
        /\ UNCHANGED <<registered, cancelHB, done, saw, heartbeat, panicked>>
    BY <1>8 DEF CloseCancels, Goto, fields
  <2>2. CancelsKnown'
    BY <2>1 DEF AgentInv, CancelsKnown, Started, TypeOK
  <2>3. CancelledByCloser'
    <3> SUFFICES ASSUME registered, cancelHB \in hbCancelled'
                 PROVE  \E q \in Ops : Closing(q)' /\ saw[q].hb = cancelHB
      BY <2>1 DEF CancelledByCloser
    <3>1. Closing(p)'
      BY <2>1 DEF Closing, TypeOK
    <3>2. CASE saw[p].hb = cancelHB
      BY <3>1, <3>2
    <3>3. CASE saw[p].hb # cancelHB
      <4>1. PICK q \in Ops : Closing(q) /\ saw[q].hb = cancelHB
        BY <2>1, <3>3 DEF AgentInv, CancelledByCloser
      <4>2. Closing(q)'
        BY <2>1, <3>3, <4>1 DEF Closing, TypeOK
      <4> QED
        BY <4>1, <4>2
    <3> QED
      BY <3>2, <3>3
  <2>4. DoneKnown'
    BY <2>1 DEF AgentInv, DoneKnown, RegisteredOnce, TypeOK
  <2> QED
    BY <2>2, <2>3, <2>4 DEF AgentInv
<1>9. ASSUME NEW p \in Ops, CloseWaits(p) PROVE AgentInv'
  BY <1>9, AgentInvKept DEF CloseWaits, Goto, fields, TypeOK, AgentInv, CancelsKnown, Closing
<1>10. ASSUME NEW p \in Ops, CloseClears(p) PROVE AgentInv'
  <2>1. /\ registered' = FALSE /\ pc' = [pc EXCEPT ![p] = "closed"] /\ pc[p] = "clearing"
        /\ UNCHANGED <<cancelHB, done, saw, hbCancelled, heartbeat, panicked>>
    BY <1>10 DEF CloseClears, Goto
  <2>2. CancelsKnown'
    BY <2>1 DEF AgentInv, CancelsKnown, Started, TypeOK
  <2>3. CancelledByCloser'
    BY <2>1 DEF CancelledByCloser
  <2>4. DoneKnown'
    BY <2>1 DEF AgentInv, DoneKnown, RegisteredOnce, TypeOK
  <2> QED
    BY <2>2, <2>3, <2>4 DEF AgentInv
<1>11. ASSUME NEW p \in Ops, Heartbeat(p) PROVE AgentInv'
  <2>1. CASE HeartbeatSends(p)
    BY <2>1, AgentInvKept DEF HeartbeatSends, Closing, fields, TypeOK
  <2>2. CASE HeartbeatReturns(p)
    BY <2>2, AgentInvKept DEF HeartbeatReturns, Closing, fields, TypeOK
  <2>3. CASE HeartbeatExits(p)
    <3>1. /\ heartbeat' = [heartbeat EXCEPT ![p] = "gone"] /\ heartbeat[p] = "select"
          /\ p \in hbCancelled /\ panicked' = done /\ done' = TRUE /\ ~panicked
          /\ UNCHANGED <<registered, cancelHB, saw, pc, hbCancelled>>
      BY <2>3 DEF HeartbeatExits, Alive
    <3>2. \A h \in Ops : Started(h)' <=> Started(h)
      BY <3>1 DEF Started, TypeOK
    <3>3. RegisteredOnce' <=> RegisteredOnce
      BY <3>2 DEF RegisteredOnce, Started
    <3>4. CancelsKnown'
      BY <3>1, <3>2 DEF AgentInv, CancelsKnown, TypeOK, Saw
    <3>5. CancelledByCloser'
      BY <3>1 DEF AgentInv, CancelledByCloser, Closing
    <3>6. done => ~RegisteredOnce
      BY <3>1 DEF AgentInv, DoneKnown, RegisteredOnce
    <3>7. DoneKnown'
      BY <3>1, <3>3, <3>6 DEF AgentInv, DoneKnown, TypeOK
    <3> QED
      BY <3>4, <3>5, <3>7 DEF AgentInv
  <2> QED
    BY <1>11, <2>1, <2>2, <2>3 DEF Heartbeat
<1>12. ASSUME NEW p \in Ops, Reader(p) PROVE AgentInv'
  BY <1>12, AgentInvKept DEF Reader, ReaderRecv, ReaderForwards, ReaderEnds, Closing, fields, TypeOK
<1>13. CASE UNCHANGED vars
  BY <1>13 DEF vars, fields, AgentInv, CancelsKnown, CancelledByCloser, DoneKnown,
     Started, Closing, RegisteredOnce
<1>14. ASSUME NEW p \in Ops, CloseStart(p) PROVE AgentInv'
  BY <1>14, AgentInvKept DEF CloseStart, Goto, fields, TypeOK, AgentInv, CancelsKnown, Closing
<1> QED
  BY <1>1, <1>2, <1>3, <1>4, <1>5, <1>6, <1>7, <1>8, <1>9, <1>10, <1>11, <1>12,
     <1>13, <1>14 DEF Next, Answer, Continue, Terminated

LEMMA AgentInvAlways == Spec => []AgentInv
<1>1. Init => AgentInv
  BY DEF Init, AgentInv, CancelsKnown, CancelledByCloser, DoneKnown, Started, NotRead
<1> QED
  BY <1>1, AgentInvStep, AgentTyping, PTL DEF Spec

\* A session that says it is registered has its heartbeat loop running and
\* not cancelled, except while a Close that cancelled that loop is under way.
THEOREM RegistrationAlive == Spec => []RegisteredHasHeartbeat
<1>1. TypeOK /\ AgentInv => RegisteredHasHeartbeat
  BY NoneAssumption DEF TypeOK, AgentInv, CancelsKnown, CancelledByCloser,
     RegisteredHasHeartbeat, Started
<1> QED
  BY <1>1, AgentInvAlways, AgentTyping, PTL

\* A session registered once never panics, and when a Close that found it
\* registered returns, its heartbeat loop has exited.
THEOREM GracefulShutdown == Spec => []GracefulOnce
<1>1. TypeOK /\ AgentInv => GracefulOnce
  <2> SUFFICES ASSUME TypeOK, AgentInv, RegisteredOnce PROVE
        /\ ~panicked
        /\ \A p \in Ops : pc[p] = "closed" /\ saw[p].registered =>
                            heartbeat[saw[p].hb] = "gone" /\ ~registered
    BY DEF GracefulOnce
  <2>1. ~panicked
    BY DEF AgentInv, DoneKnown
  <2>2. ASSUME NEW p \in Ops, pc[p] = "closed", saw[p].registered
        PROVE  heartbeat[saw[p].hb] = "gone" /\ ~registered
    <3>1. PICK h \in Ops : heartbeat[h] = "gone"
      BY <2>2 DEF AgentInv, DoneKnown
    <3>2. saw[p].hb \in Ops /\ heartbeat[saw[p].hb] # "none"
      BY <2>2 DEF AgentInv, CancelsKnown, Started, TypeOK, Saw
    <3>3. h = saw[p].hb
      BY <3>1, <3>2 DEF RegisteredOnce
    <3> QED
      BY <2>2, <3>1, <3>3 DEF AgentInv, DoneKnown
  <2> QED
    BY <2>1, <2>2
<1> QED
  BY <1>1, AgentInvAlways, AgentTyping, PTL

------------------------------------------------------------------------------
(* When Close does unsubscribe.                                            *)

Live(s) == reader[s] \in {"recv", "event"} /\ s \notin subCancelled

\* Subscribe runs only when no Close is under way and no earlier stream lives.
SubscribesAlone ==
  \A p \in Ops : pc[p] = "subscribing" =>
    /\ \A s \in Ops : ~Live(s)
    /\ \A q \in Ops : ~Closing(q)

\* Then streamCancel is that of the only stream that may live, every Close
\* under way has it, and nothing lives once registered is cleared.
StreamInv ==
  /\ \A s \in Ops : Live(s) => streamCancel = s /\ registered
  /\ \A p \in Ops : pc[p] = "subscribing" => streamCancel = p /\ registered
  /\ \A p \in Ops : pc[p] \in {"registering", "subscribing"} => mu = p
  /\ \A p \in Ops : Closing(p) => saw[p].stream = streamCancel
  /\ \A p \in Ops : pc[p] \in {"awaiting", "clearing"} =>
                      streamCancel = None \/ streamCancel \in subCancelled

\* A step that starts no stream, reads no field and clears none.
LEMMA StreamInvKept ==
  ASSUME StreamInv, UNCHANGED <<streamCancel, saw>>, subCancelled \subseteq subCancelled',
         registered => registered',
         \A s \in Ops : Live(s)' => Live(s),
         \A p \in Ops : pc'[p] = "subscribing" => pc[p] = "subscribing",
         \A p \in Ops : pc'[p] \in {"registering", "subscribing"} => mu' = p,
         \A p \in Ops : Closing(p)' => Closing(p),
         \A p \in Ops : pc'[p] \in {"awaiting", "clearing"} =>
                          \/ pc[p] \in {"awaiting", "clearing"}
                          \/ streamCancel = None \/ streamCancel \in subCancelled'
  PROVE  StreamInv'
  BY DEF StreamInv

LEMMA StreamStep ==
  TypeOK /\ StreamInv /\ SubscribesAlone /\ SubscribesAlone' /\ [Next]_vars => StreamInv'
<1> SUFFICES ASSUME TypeOK, StreamInv, SubscribesAlone, SubscribesAlone', [Next]_vars
             PROVE  StreamInv'
  OBVIOUS
<1> USE NoneAssumption
\* Where one operation moves, and no stream.
<1>k. ASSUME NEW p \in Ops, NEW place \in {"returned", "registering", "locking", "clearing"},
             pc' = [pc EXCEPT ![p] = place],
             UNCHANGED <<streamCancel, saw, reader, subCancelled>>,
             registered' = registered \/ registered' = TRUE,
             place = "clearing" => pc[p] = "awaiting",
             place = "registering" => mu' = p,
             mu' = mu \/ mu = None \/ mu = p
      PROVE  StreamInv'
  <2>1. \A q \in Ops : pc'[q] = IF q = p THEN place ELSE pc[q]
    BY <1>k DEF TypeOK
  <2>2. \A s \in Ops : Live(s)' <=> Live(s)
    BY <1>k DEF Live
  <2>3. \A q \in Ops : Closing(q)' => Closing(q)
    BY <1>k, <2>1 DEF Closing
  <2>4. \A q \in Ops : pc'[q] \in {"registering", "subscribing"} => mu' = q
    BY <1>k, <2>1 DEF StreamInv
  <2>5. registered => registered'
    BY <1>k
  <2> QED
    BY <1>k, <2>1, <2>2, <2>3, <2>4, <2>5, StreamInvKept
\* Where only goroutines move.
<1>g. ASSUME UNCHANGED <<mu, registered, streamCancel, pc, saw, subCancelled>>,
             \A s \in Ops : reader'[s] \in {"recv", "event"} => reader[s] \in {"recv", "event"}
      PROVE  StreamInv'
  <2>1. \A s \in Ops : Live(s)' => Live(s)
    BY <1>g DEF Live
  <2>2. \A q \in Ops : Closing(q)' => Closing(q)
    BY <1>g DEF Closing
  <2>3. \A q \in Ops : pc'[q] \in {"registering", "subscribing"} => mu' = q
    BY <1>g DEF StreamInv
  <2> QED
    BY <1>g, <2>1, <2>2, <2>3, StreamInvKept
<1>1. ASSUME NEW p \in Ops, RegisterStart(p) PROVE StreamInv'
  <2>1. /\ mu = None /\ UNCHANGED <<registered, streamCancel, saw, reader, subCancelled>>
        /\ \/ pc' = [pc EXCEPT ![p] = "returned"] /\ mu' = mu
           \/ pc' = [pc EXCEPT ![p] = "registering"] /\ mu' = p
    BY <1>1 DEF RegisterStart, Goto
  <2> QED
    BY <2>1, <1>k
<1>2. ASSUME NEW p \in Ops, RegisterFails(p) \/ RegisterOk(p) PROVE StreamInv'
  <2>1. pc[p] = "registering" /\ mu = p
    BY <1>2 DEF RegisterFails, RegisterOk, StreamInv
  <2>2. CASE RegisterFails(p)
    BY <2>1, <2>2, <1>k DEF RegisterFails, Goto
  <2>3. CASE RegisterOk(p)
    BY <2>1, <2>3, <1>k DEF RegisterOk, Goto
  <2> QED
    BY <1>2, <2>2, <2>3
<1>3. ASSUME NEW p \in Ops, SubscribeStart(p) PROVE StreamInv'
  <2>1. CASE ~registered
    <3>1. /\ pc' = [pc EXCEPT ![p] = "returned"] /\ mu' = mu
          /\ UNCHANGED <<registered, streamCancel, saw, reader, subCancelled>>
      BY <1>3, <2>1 DEF SubscribeStart, Goto
    <3> QED
      BY <3>1, <1>k
  <2>2. CASE registered
    <3>1. /\ pc' = [pc EXCEPT ![p] = "subscribing"] /\ mu = None /\ mu' = p
          /\ streamCancel' = p /\ registered'
      BY <1>3, <2>2 DEF SubscribeStart, Goto
    <3>2. pc'[p] = "subscribing" /\ \A q \in Ops \ {p} : pc'[q] = pc[q]
      BY <3>1 DEF TypeOK
    <3>3. \A q \in Ops : ~Live(q)' /\ ~Closing(q)'
      BY <3>2 DEF SubscribesAlone
    <3>4. \A q \in Ops \ {p} : pc[q] \notin {"registering", "subscribing"}
      BY <3>1 DEF StreamInv
    <3> QED
      BY <3>1, <3>2, <3>3, <3>4 DEF StreamInv, Closing
  <2> QED
    BY <2>1, <2>2
<1>4. ASSUME NEW p \in Ops, SubscribeFails(p) PROVE StreamInv'
  <2>1. /\ pc[p] = "subscribing" /\ pc' = [pc EXCEPT ![p] = "returned"]
        /\ subCancelled' = subCancelled \cup {p}
        /\ UNCHANGED <<registered, streamCancel, saw, reader>>
    BY <1>4 DEF SubscribeFails, Goto
  <2>2. \A q \in Ops : pc'[q] = IF q = p THEN "returned" ELSE pc[q]
    BY <2>1 DEF TypeOK
  <2>3. \A s \in Ops : Live(s)' => Live(s)
    BY <2>1 DEF Live
  <2>4. \A q \in Ops : Closing(q)' => Closing(q)
    BY <2>2 DEF Closing
  <2>5. \A q \in Ops : pc'[q] \in {"registering", "subscribing"} => mu' = q
    BY <2>1, <2>2 DEF StreamInv
  <2> QED
    BY <2>1, <2>2, <2>3, <2>4, <2>5, StreamInvKept
<1>5. ASSUME NEW p \in Ops, SubscribeOk(p) PROVE StreamInv'
  <2>1. /\ pc[p] = "subscribing" /\ pc' = [pc EXCEPT ![p] = "returned"]
        /\ reader' = [reader EXCEPT ![p] = "recv"]
        /\ UNCHANGED <<registered, streamCancel, saw, subCancelled>>
    BY <1>5 DEF SubscribeOk, Goto
  <2>2. \A q \in Ops : pc'[q] = IF q = p THEN "returned" ELSE pc[q]
    BY <2>1 DEF TypeOK
  <2>3. streamCancel = p /\ registered
    BY <2>1 DEF StreamInv
  <2>4. \A q \in Ops : ~Closing(q) /\ (Live(q)' => q = p)
    BY <2>1 DEF SubscribesAlone, Live, TypeOK
  <2>5. \A q \in Ops : pc'[q] \notin {"registering", "subscribing", "awaiting", "clearing", "cancelling"}
    BY <2>1, <2>2, <2>4 DEF StreamInv, Closing
  <2> QED
    BY <2>1, <2>3, <2>4, <2>5 DEF StreamInv, Closing
<1>6. ASSUME NEW p \in Ops, CloseReads(p) PROVE StreamInv'
  <2>1. /\ saw' = [saw EXCEPT ![p] = [registered |-> registered, hb |-> cancelHB,
                                      stream |-> streamCancel]]
        /\ pc' = [pc EXCEPT ![p] = "cancelling"]
        /\ UNCHANGED <<mu, registered, streamCancel, reader, subCancelled>>
    BY <1>6 DEF CloseReads, Goto, fields
  <2>2. /\ \A q \in Ops : pc'[q] = IF q = p THEN "cancelling" ELSE pc[q]
        /\ saw'[p].stream = streamCancel /\ \A q \in Ops \ {p} : saw'[q] = saw[q]
    BY <2>1 DEF TypeOK
  <2>3. \A s \in Ops : Live(s)' <=> Live(s)
    BY <2>1 DEF Live
  <2> QED
    BY <2>1, <2>2, <2>3 DEF StreamInv, Closing
<1>7. ASSUME NEW p \in Ops, CloseCancels(p) PROVE StreamInv'
  <2>1. /\ pc[p] = "cancelling"
        /\ pc' = [pc EXCEPT ![p] = IF saw[p].registered THEN "awaiting" ELSE "clearing"]
        /\ subCancelled' = subCancelled \cup ({saw[p].stream} \ {None})
        /\ UNCHANGED <<mu, registered, streamCancel, saw, reader>>
    BY <1>7 DEF CloseCancels, Goto, fields
  <2>2. /\ pc'[p] \in {"awaiting", "clearing"}
        /\ \A q \in Ops \ {p} : pc'[q] = pc[q]
    BY <2>1 DEF TypeOK
  <2>3. \A s \in Ops : Live(s)' => Live(s)
    BY <2>1 DEF Live
  <2>4. \A q \in Ops : Closing(q)' => Closing(q)
    BY <2>1, <2>2 DEF Closing
  <2>5. streamCancel = None \/ streamCancel \in subCancelled'
    BY <2>1 DEF StreamInv, Closing
  <2>6. \A q \in Ops : pc'[q] \in {"registering", "subscribing"} => mu' = q
    BY <2>1, <2>2 DEF StreamInv
  <2>7. \A q \in Ops : pc'[q] = "subscribing" => pc[q] = "subscribing"
    BY <2>2
  <2>8. subCancelled \subseteq subCancelled'
    BY <2>1
  <2> QED
    BY <2>1, <2>3, <2>4, <2>5, <2>6, <2>7, <2>8, StreamInvKept
<1>8. ASSUME NEW p \in Ops, CloseWaits(p) PROVE StreamInv'
  BY <1>8, <1>k DEF CloseWaits, Goto, fields
<1>9. ASSUME NEW p \in Ops, CloseClears(p) PROVE StreamInv'
  <2>1. /\ pc[p] = "clearing" /\ pc' = [pc EXCEPT ![p] = "closed"]
        /\ UNCHANGED <<mu, streamCancel, saw, reader, subCancelled>>
    BY <1>9 DEF CloseClears, Goto
  <2>2. \A q \in Ops : pc'[q] = IF q = p THEN "closed" ELSE pc[q]
    BY <2>1 DEF TypeOK
  <2>3. \A s \in Ops : ~Live(s) /\ ~Live(s)'
    BY <2>1 DEF StreamInv, Live
  <2>4. \A q \in Ops : pc[q] # "subscribing"
    BY <2>1 DEF SubscribesAlone, Closing
  <2> QED
    BY <2>1, <2>2, <2>3, <2>4 DEF StreamInv, Closing
<1>10. ASSUME NEW h \in Ops, Heartbeat(h) PROVE StreamInv'
  BY <1>10, <1>g DEF Heartbeat, HeartbeatSends, HeartbeatReturns, HeartbeatExits, fields
<1>11. ASSUME NEW s \in Ops, Reader(s) PROVE StreamInv'
  <2>1. /\ UNCHANGED <<mu, registered, streamCancel, pc, saw, subCancelled>>
        /\ reader[s] \in {"recv", "event"} /\ \A r \in Ops \ {s} : reader'[r] = reader[r]
    BY <1>11 DEF Reader, ReaderRecv, ReaderForwards, ReaderEnds, fields, TypeOK
  <2> QED
    BY <2>1, <1>g
<1>12. CASE UNCHANGED vars
  BY <1>12, <1>g DEF vars, fields
<1>13. ASSUME NEW p \in Ops, CloseStart(p) PROVE StreamInv'
  BY <1>13, <1>k DEF CloseStart, Goto, fields
<1> QED
  BY <1>1, <1>2, <1>3, <1>4, <1>5, <1>6, <1>7, <1>8, <1>9, <1>10, <1>11, <1>12, <1>13
  DEF Next, Answer, Continue, Terminated

\* Close does unsubscribe, as Subscribe's comment says, whenever Subscribe is
\* called only outside every Close and after the earlier stream has ended:
\* with that, the stream that lives is the one Close would cancel.
THEOREM LoneSubscriptionsEnd == Spec /\ []SubscribesAlone => []CloseUnsubscribes
<1>1. Init => StreamInv
  BY DEF Init, StreamInv, Live, Closing
<1>2. StreamInv => CloseUnsubscribes
  BY DEF StreamInv, Live, CloseUnsubscribes
<1> QED
  BY <1>1, <1>2, StreamStep, AgentTyping, PTL DEF Spec
==============================================================================
