------------------------- MODULE IMessagePollerProofs ------------------------
(***************************************************************************)
(* Proofs about IMessagePoller, for any listeners, database and capacity.  *)
(*                                                                         *)
(* That no row is passed over needs to know what a poll has in hand: the   *)
(* wanted rows up to since were sent by somebody, and those after it, up   *)
(* to any row of the batch, are in the batch; but for the rows that a      *)
(* query could not read (unread).  That nothing is repeated                *)
(* needs since and lastROWID to be above all that was sent (Ahead).        *)
(***************************************************************************)
EXTENDS IMessagePoller, SequenceTheorems, TLAPS

Places == {"idle", "select", "query", "sending", "marking", "gone"}

InHand(l) ==
  /\ batch[l] \subseteq Wanted
  /\ batch[l] # {} => pc[l] \in {"sending", "marking"}
  /\ \A r \in batch[l] : since[l] < r
  /\ \A q \in Wanted : \A r \in batch[l] : since[l] < q /\ q <= r =>
                      q \in batch[l] \cup unread
  /\ \A q \in Wanted : base < q /\ q <= since[l] => q \in Received \cup unread

Inv ==
  /\ \A q \in Wanted : base < q /\ q <= lastROWID => q \in Received \cup unread
  /\ \A l \in Listeners : InHand(l)

------------------------------------------------------------------------------
(* Typing.                                                                 *)

LEMMA TypeInit == Init => TypeOK
<1>1. Init => /\ rows \in 0..MaxRows /\ lastROWID \in 0..rows
              /\ opened \in 0..MaxConnects /\ base \in 0..rows
  BY BoundsAssumption DEF Init
<1>2. Init => connected \in BOOLEAN /\ stopped \in BOOLEAN
  BY DEF Init
<1>3. Init => fellBack \in BOOLEAN /\ overlapped \in BOOLEAN
  BY DEF Init
<1>4. Init => /\ since \in [Listeners -> 0..rows] /\ over \in [Listeners -> 0..MaxConnects]
              /\ queued \in [Listeners -> 0..Cap]
  BY BoundsAssumption DEF Init
<1>5. Init => pc \in [Listeners -> Places] /\ ctxDone \in [Listeners -> BOOLEAN]
  BY DEF Init, Places
<1>6. Init => /\ batch \in [Listeners -> SUBSET (1..rows)]
              /\ sent \in [Listeners -> Seq(1..rows)] /\ unread \subseteq 1..rows
  BY DEF Init
<1> QED
  BY <1>1, <1>2, <1>3, <1>4, <1>5, <1>6 DEF TypeOK, Places

\* What Resume sets has its type.
LEMMA ResumeTypes ==
  ASSUME TypeOK, NEW l \in Listeners, NEW rest \in SUBSET (1..rows), Resume(l, rest)
  PROVE  /\ pc' \in [Listeners -> Places]
         /\ since' \in [Listeners -> 0..rows]
         /\ over' \in [Listeners -> 0..MaxConnects]
         /\ batch' \in [Listeners -> SUBSET (1..rows)]
<1>1. pc' \in [Listeners -> Places]
  BY DEF TypeOK, Resume, Goto, Places
<1>2. since' \in [Listeners -> 0..rows] /\ over' \in [Listeners -> 0..MaxConnects]
  BY BoundsAssumption DEF TypeOK, Resume
<1>3. batch' \in [Listeners -> SUBSET (1..rows)]
  BY DEF TypeOK, Resume
<1> QED
  BY <1>1, <1>2, <1>3

LEMMA TypeNext == TypeOK /\ [Next]_vars => TypeOK'
<1> SUFFICES ASSUME TypeOK, [Next]_vars PROVE TypeOK'
  OBVIOUS
<1> USE BoundsAssumption
<1>1. CASE RowArrives
  <2>1. 0..rows \subseteq 0..rows' /\ 1..rows \subseteq 1..rows' /\ rows' \in 0..MaxRows
    BY <1>1 DEF TypeOK, RowArrives
  <2>2. Seq(1..rows) \subseteq Seq(1..rows')
    BY <2>1, SeqMonotonic, Zenon
  <2> QED
    BY <1>1, <2>1, <2>2 DEF TypeOK, RowArrives, adapter, local, history
<1>2. CASE Connect
  <2>1. /\ lastROWID' \in 0..rows /\ opened' \in 0..MaxConnects /\ base' \in 0..rows
        /\ connected' \in BOOLEAN
    BY <1>2 DEF TypeOK, Connect
  <2>2. fellBack' \in BOOLEAN
    BY <1>2 DEF TypeOK, Connect
  <2> QED
    BY <1>2, <2>1, <2>2 DEF TypeOK, Connect, local
<1>3. CASE Close
  BY <1>3 DEF TypeOK, Close, local, history
<1>4. ASSUME NEW l \in Listeners, Take(l) PROVE TypeOK'
  <2>1. queued' \in [Listeners -> 0..Cap]
    BY <1>4 DEF TypeOK, Take
  <2> QED
    BY <1>4, <2>1 DEF TypeOK, Take, adapter, history
<1>5. ASSUME NEW l \in Listeners, CancelContext(l) PROVE TypeOK'
  BY <1>5 DEF TypeOK, CancelContext, adapter, history
<1>6. ASSUME NEW l \in Listeners, Listen(l) PROVE TypeOK'
  <2>1. overlapped' \in BOOLEAN
    BY <1>6 DEF Listen
  <2> QED
    BY <1>6, <2>1 DEF TypeOK, Listen, Goto, adapter
<1>7. ASSUME NEW l \in Listeners, ListenerExits(l) PROVE TypeOK'
  BY <1>7 DEF TypeOK, ListenerExits, Goto, adapter, history
<1>8. ASSUME NEW l \in Listeners, PollStarts(l) PROVE TypeOK'
  BY <1>8 DEF TypeOK, PollStarts, Goto, adapter, history
<1>r. ASSUME NEW l \in Listeners, NEW rest \in SUBSET (1..rows), Resume(l, rest),
             UNCHANGED <<rows, adapter, queued, ctxDone, history>>
      PROVE  TypeOK'
  BY <1>r, ResumeTypes DEF TypeOK, adapter, history, Places
<1>9. ASSUME NEW l \in Listeners, QueryOk(l) PROVE TypeOK'
  <2>1. Due(l) \subseteq 1..rows
    <3>1. ASSUME NEW r \in Wanted, r <= rows PROVE r \in 1..rows
      <4>1. r \in 1..MaxRows /\ rows \in 0..MaxRows /\ MaxRows \in Nat
        BY DEF TypeOK
      <4> QED
        BY <3>1, <4>1
    <3> QED
      BY <3>1, Zenon DEF Due
  <2>2. PICK read \in SUBSET Due(l) :
          /\ Resume(l, read)
          /\ unread' = unread \cup {r \in Due(l) \ read : \E q \in read : r < q}
    BY <1>9, Zenon DEF QueryOk
  <2>3. unread' \subseteq 1..rows
    BY <2>1, <2>2, Zenon DEF TypeOK
  <2>4. read \in SUBSET (1..rows) /\ UNCHANGED <<rows, adapter, queued, ctxDone, sent, base, fellBack, overlapped>>
    BY <1>9, <2>1, Zenon DEF QueryOk
  <2> QED
    BY <2>2, <2>3, <2>4, ResumeTypes DEF TypeOK, adapter, Places
<1>10. ASSUME NEW l \in Listeners, QueryFails(l) PROVE TypeOK'
  BY <1>10, <1>r DEF QueryFails
<1>11. ASSUME NEW l \in Listeners, SendCancelled(l) PROVE TypeOK'
  BY <1>11, <1>r DEF SendCancelled
<1>12. ASSUME NEW l \in Listeners, SendRow(l) PROVE TypeOK'
  <2>1. queued' \in [Listeners -> 0..Cap]
    BY <1>12 DEF TypeOK, SendRow
  <2>2. PICK r \in batch[l] : /\ sent' = [sent EXCEPT ![l] = Append(@, r)]
                              /\ since' = [since EXCEPT ![l] = r]
                              /\ batch' = [batch EXCEPT ![l] = @ \ {r}]
    BY <1>12 DEF SendRow
  <2>3. r \in 1..rows /\ r \in 0..rows
    BY <2>2 DEF TypeOK
  <2>4. /\ sent' \in [Listeners -> Seq(1..rows)]
        /\ since' \in [Listeners -> 0..rows]
        /\ batch' \in [Listeners -> SUBSET (1..rows)]
    BY <2>2, <2>3 DEF TypeOK
  <2> QED
    BY <1>12, <2>1, <2>4 DEF TypeOK, SendRow, Goto, adapter
<1>13. ASSUME NEW l \in Listeners, MarkRow(l) PROVE TypeOK'
  <2>1. lastROWID' \in 0..rows
    BY <1>13 DEF TypeOK, MarkRow
  <2>2. batch[l] \in SUBSET (1..rows) /\ Resume(l, batch[l])
    BY <1>13 DEF TypeOK, MarkRow
  <2> QED
    BY <1>13, <2>1, <2>2, ResumeTypes DEF TypeOK, MarkRow, history, Places
<1>14. CASE UNCHANGED vars
  BY <1>14 DEF TypeOK, vars, adapter, local, history
<1> QED
  BY <1>1, <1>2, <1>3, <1>4, <1>5, <1>6, <1>7, <1>8, <1>9, <1>10, <1>11, <1>12, <1>13, <1>14
  DEF Next, Continue, Terminated

\* The poller's state keeps its types; lastROWID and a poll's copy of it stay
\* within the database.
THEOREM IMessageTyping == Spec => []TypeOK
<1> QED
  BY TypeInit, TypeNext, PTL DEF Spec

------------------------------------------------------------------------------
(* What a step does to the rows that were sent and to a poll's locals.     *)

LEMMA AppendRows ==
  ASSUME TypeOK, NEW l \in Listeners, NEW r \in 1..rows,
         sent' = [sent EXCEPT ![l] = Append(@, r)]
  PROVE  /\ Rows(l)' = Rows(l) \cup {r}
         /\ \A m \in Listeners \ {l} : Rows(m)' = Rows(m)
         /\ Received' = Received \cup {r}
<1>1. /\ sent[l] \in Seq(1..rows) /\ Len(sent[l]) \in Nat
      /\ DOMAIN sent[l] = 1..Len(sent[l])
  BY DEF TypeOK
<1>2. sent'[l] = Append(sent[l], r)
  BY DEF TypeOK
<1>3. /\ DOMAIN sent'[l] = 1..Len(sent[l]) + 1
      /\ \A i \in 1..Len(sent[l]) : sent'[l][i] = sent[l][i]
      /\ sent'[l][Len(sent[l]) + 1] = r
  BY <1>1, <1>2
<1>4. 1..Len(sent[l]) + 1 = 1..Len(sent[l]) \cup {Len(sent[l]) + 1}
  BY <1>1
<1>5. Rows(l)' = Rows(l) \cup {r}
  <2>1. \A i \in DOMAIN sent'[l] : sent'[l][i] \in Rows(l) \cup {r}
    BY <1>1, <1>3, <1>4 DEF Rows
  <2>2. \A q \in Rows(l) \cup {r} : \E i \in DOMAIN sent'[l] : sent'[l][i] = q
    BY <1>1, <1>3, <1>4 DEF Rows
  <2>3. Rows(l)' = {sent'[l][i] : i \in DOMAIN sent'[l]}
    BY DEF Rows
  <2> QED
    BY <2>1, <2>2, <2>3, SMT
<1>6. \A m \in Listeners \ {l} : Rows(m)' = Rows(m)
  BY DEF TypeOK, Rows
<1>7. ASSUME NEW q PROVE q \in Received' <=> q \in Received \/ q = r
  BY <1>5, <1>6, Zenon DEF Received
<1> QED
  BY <1>5, <1>6, <1>7

\* The rows of a channel are rows of the database.
LEMMA RowsInDatabase ==
  ASSUME TypeOK, NEW l \in Listeners PROVE Rows(l) \subseteq 1..rows
  BY DEF TypeOK, Rows

\* Resume changes the locals of its own listener only.
LEMMA ResumeLocal ==
  ASSUME TypeOK, NEW l \in Listeners, NEW rest, Resume(l, rest)
  PROVE  /\ batch'[l] = rest
         /\ rest = {} => pc'[l] = "select" /\ since'[l] = 0
         /\ rest # {} => pc'[l] = "sending" /\ since'[l] = since[l]
         /\ \A m \in Listeners \ {l} :
              pc'[m] = pc[m] /\ since'[m] = since[m] /\ batch'[m] = batch[m]
  BY DEF TypeOK, Resume, Goto

------------------------------------------------------------------------------
(* Nothing is skipped.                                                     *)

LEMMA InvInit == Init => Inv
  BY BoundsAssumption DEF Init, Inv, InHand

LEMMA InvNext == TypeOK /\ Inv /\ [Next]_vars => Inv'
<1> SUFFICES ASSUME TypeOK, Inv, [Next]_vars PROVE Inv'
  OBVIOUS
<1> USE BoundsAssumption
<1>0. TypeOK'
  BY TypeNext
\* The steps that end in Resume, with lastROWID where it was.
<1>r. ASSUME NEW l \in Listeners, NEW rest, Resume(l, rest),
             UNCHANGED <<lastROWID, base, sent>>, unread \subseteq unread',
             /\ rest \subseteq Wanted
             /\ \A r \in rest : since[l] < r
             /\ \A q \in Wanted : \A r \in rest : since[l] < q /\ q <= r => q \in rest \cup unread'
      PROVE  Inv'
  <2>1. Received' = Received
    BY <1>r DEF Received, Rows
  <2>2. ASSUME NEW m \in Listeners \ {l} PROVE InHand(m)'
    BY <1>r, <2>1, ResumeLocal DEF Inv, InHand
  <2>3. InHand(l)'
    <3>1. CASE rest = {}
      <4>1. batch'[l] = {} /\ since'[l] = 0
        BY <1>r, <3>1, ResumeLocal
      <4>2. ASSUME NEW q \in Wanted, base < q PROVE ~(q <= since'[l])
        BY <4>1, <4>2 DEF TypeOK
      <4> QED
        BY <1>r, <4>1, <4>2 DEF InHand
    <3>2. CASE rest # {}
      <4>1. batch'[l] = rest /\ since'[l] = since[l] /\ pc'[l] = "sending"
        BY <1>r, <3>2, ResumeLocal
      <4> QED
        BY <1>r, <2>1, <4>1 DEF Inv, InHand
    <3> QED
      BY <3>1, <3>2
  <2> QED
    BY <1>r, <2>1, <2>2, <2>3 DEF Inv
\* The steps that leave what InHand speaks of.
<1>s. ASSUME UNCHANGED <<lastROWID, base, sent, unread, since, batch>>,
             \A l \in Listeners :
               pc[l] \in {"sending", "marking"} => pc'[l] \in {"sending", "marking"}
      PROVE  Inv'
  <2>1. Received' = Received
    BY <1>s DEF Received, Rows
  <2> QED
    BY <1>s, <2>1 DEF Inv, InHand
<1>1. CASE RowArrives
  BY <1>1, <1>s DEF RowArrives, adapter, local, history
<1>2. CASE Connect
  <2>1. Received' = Received
    BY <1>2 DEF Connect, Received, Rows
  <2>2. base' = rows /\ lastROWID' <= rows
    BY <1>2 DEF TypeOK, Connect
  <2>3. \A l \in Listeners : since[l] <= rows
    BY DEF TypeOK
  <2>4. UNCHANGED <<pc, since, batch, unread>>
    BY <1>2 DEF Connect, local
  <2>5. ASSUME NEW l \in Listeners, NEW q \in Wanted, base' < q PROVE ~(q <= since[l])
    BY <2>2, <2>3, <2>5 DEF TypeOK
  <2>6. ASSUME NEW q \in Wanted, base' < q PROVE ~(q <= lastROWID')
    BY <1>0, <2>2, <2>6 DEF TypeOK
  <2> QED
    BY <2>4, <2>5, <2>6 DEF Inv, InHand
<1>3. CASE Close
  BY <1>3, <1>s DEF Close, local, history
<1>4. ASSUME NEW l \in Listeners, Take(l) PROVE Inv'
  BY <1>4, <1>s DEF Take, adapter, history
<1>5. ASSUME NEW l \in Listeners, CancelContext(l) PROVE Inv'
  BY <1>5, <1>s DEF CancelContext, adapter, history
<1>6. ASSUME NEW l \in Listeners, Listen(l) PROVE Inv'
  BY <1>6, <1>s DEF TypeOK, Listen, Goto, adapter
<1>7. ASSUME NEW l \in Listeners, ListenerExits(l) PROVE Inv'
  BY <1>7, <1>s DEF TypeOK, ListenerExits, Goto, adapter, history
<1>8. ASSUME NEW l \in Listeners, PollStarts(l) PROVE Inv'
  <2>1. /\ UNCHANGED <<lastROWID, base, sent, unread, batch>>
        /\ since'[l] = lastROWID /\ pc[l] = "select"
        /\ \A m \in Listeners \ {l} : pc'[m] = pc[m] /\ since'[m] = since[m]
    BY <1>8 DEF TypeOK, PollStarts, Goto, adapter, history
  <2>2. Received' = Received
    BY <2>1 DEF Received, Rows
  <2>3. ASSUME NEW m \in Listeners \ {l} PROVE InHand(m)'
    BY <2>1, <2>2 DEF Inv, InHand
  <2>4. InHand(l)'
    <3>1. batch'[l] = {}
      BY <2>1 DEF Inv, InHand
    <3> QED
      BY <2>1, <2>2, <3>1 DEF Inv, InHand
  <2> QED
    BY <2>1, <2>2, <2>3, <2>4 DEF Inv
<1>9. ASSUME NEW l \in Listeners, QueryOk(l) PROVE Inv'
  <2>1. PICK read \in SUBSET Due(l) :
          /\ Resume(l, read)
          /\ unread' = unread \cup {r \in Due(l) \ read : \E q \in read : r < q}
    BY <1>9, Zenon DEF QueryOk
  <2>2. ASSUME NEW q \in Wanted, NEW r \in read, since[l] < q, q <= r
        PROVE  q \in read \cup unread'
    <3>1. r \in Nat /\ q \in Nat /\ rows \in Nat /\ r <= rows
      BY <2>1 DEF Due, TypeOK
    <3>2. q \in Due(l)
      BY <2>2, <3>1 DEF Due
    <3>3. q = r \/ q < r
      BY <2>2, <3>1
    <3> QED
      BY <2>1, <2>2, <3>2, <3>3
  <2>3. read \subseteq Wanted /\ \A r \in read : since[l] < r
    BY <2>1 DEF Due
  <2>4. UNCHANGED <<lastROWID, base, sent>>
    BY <1>9 DEF QueryOk, adapter
  <2> QED
    BY <1>r, <2>1, <2>2, <2>3, <2>4
<1>10. ASSUME NEW l \in Listeners, QueryFails(l) PROVE Inv'
  BY <1>10, <1>r DEF QueryFails, adapter, history
<1>11. ASSUME NEW l \in Listeners, SendCancelled(l) PROVE Inv'
  BY <1>11, <1>r DEF SendCancelled, adapter, history
<1>12. ASSUME NEW l \in Listeners, SendRow(l) PROVE Inv'
  <2>1. PICK r \in batch[l] : /\ \A q \in batch[l] : r <= q
                              /\ sent' = [sent EXCEPT ![l] = Append(@, r)]
                              /\ since' = [since EXCEPT ![l] = r]
                              /\ batch' = [batch EXCEPT ![l] = @ \ {r}]
    BY <1>12 DEF SendRow
  <2>2. r \in 1..rows /\ r \in Wanted
    BY <2>1 DEF TypeOK, Inv, InHand
  <2>3. Received' = Received \cup {r}
    BY <2>1, <2>2, AppendRows
  <2>4. /\ UNCHANGED <<lastROWID, base, unread>>
        /\ since'[l] = r /\ batch'[l] = batch[l] \ {r} /\ pc'[l] = "marking"
        /\ \A m \in Listeners \ {l} :
             pc'[m] = pc[m] /\ since'[m] = since[m] /\ batch'[m] = batch[m]
    BY <1>12, <2>1 DEF TypeOK, SendRow, Goto, adapter
  <2>5. ASSUME NEW m \in Listeners \ {l} PROVE InHand(m)'
    BY <2>3, <2>4 DEF Inv, InHand
  <2>6. InHand(l)'
    <3>1. since[l] \in Nat /\ r \in Nat /\ since[l] < r /\ batch[l] \subseteq Nat
      BY <2>1, <2>2 DEF TypeOK, Inv, InHand
    <3>2. Wanted \subseteq Nat
      OBVIOUS
    <3>3. ASSUME NEW q \in batch'[l] PROVE since'[l] < q
      <4>1. q \in Nat /\ r <= q /\ q # r
        BY <2>1, <2>4, <3>1, <3>3
      <4> QED
        BY <2>4, <3>1, <4>1
    <3>4. ASSUME NEW q \in Wanted, NEW p \in batch'[l], since'[l] < q, q <= p
          PROVE  q \in batch'[l] \cup unread'
      <4>1. q \in Nat /\ since[l] < q /\ q # r
        BY <2>4, <3>1, <3>2, <3>4
      <4>2. q \in batch[l] \cup unread
        BY <2>4, <3>4, <4>1 DEF Inv, InHand
      <4> QED
        BY <2>4, <4>1, <4>2
    <3>5. ASSUME NEW q \in Wanted, base < q, q <= since'[l] PROVE q \in (Received \cup unread)'
      <4>1. CASE q <= since[l]
        BY <2>3, <2>4, <3>5, <4>1 DEF Inv, InHand
      <4>2. CASE since[l] < q
        <5>1. q \in batch[l] \cup unread
          BY <2>1, <2>4, <3>5, <4>2 DEF Inv, InHand
        <5>2. q \in batch[l] => q = r
          BY <2>1, <2>4, <3>1, <3>2, <3>5
        <5> QED
          BY <2>3, <2>4, <5>1, <5>2
      <4> QED
        BY <3>1, <3>2, <4>1, <4>2
    <3> QED
      BY <2>4, <3>3, <3>4, <3>5 DEF Inv, InHand
  <2> QED
    BY <2>3, <2>4, <2>5, <2>6 DEF Inv
<1>13. ASSUME NEW l \in Listeners, MarkRow(l) PROVE Inv'
  <2>1. /\ Resume(l, batch[l]) /\ UNCHANGED <<base, sent, unread>>
        /\ lastROWID' = IF since[l] > lastROWID THEN since[l] ELSE lastROWID
    BY <1>13 DEF MarkRow, history
  <2>2. Received' = Received
    BY <2>1 DEF Received, Rows
  <2>3. ASSUME NEW q \in Wanted, base' < q, q <= lastROWID' PROVE q \in (Received \cup unread)'
    BY <2>1, <2>2, <2>3 DEF Inv, InHand
  <2>4. ASSUME NEW m \in Listeners \ {l} PROVE InHand(m)'
    BY <2>1, <2>2, ResumeLocal DEF Inv, InHand
  <2>5. InHand(l)'
    <3>1. CASE batch[l] = {}
      <4>1. batch'[l] = {} /\ since'[l] = 0
        BY <2>1, <3>1, ResumeLocal
      <4>2. ASSUME NEW q \in Wanted, base < q PROVE ~(q <= since'[l])
        BY <4>1, <4>2 DEF TypeOK
      <4> QED
        BY <2>1, <4>1, <4>2 DEF InHand
    <3>2. CASE batch[l] # {}
      BY <2>1, <2>2, <3>2, ResumeLocal DEF Inv, InHand
    <3> QED
      BY <3>1, <3>2
  <2> QED
    BY <2>3, <2>4, <2>5 DEF Inv
<1>14. CASE UNCHANGED vars
  BY <1>14, <1>s DEF vars, adapter, local, history
<1> QED
  BY <1>1, <1>2, <1>3, <1>4, <1>5, <1>6, <1>7, <1>8, <1>9, <1>10, <1>11, <1>12, <1>13, <1>14
  DEF Next, Continue, Terminated

\* No wanted row that came after the latest Connect is passed over by
\* lastROWID without having been sent, however many listeners there are and
\* whatever cut their polls short, but for a row that a query failed to read.
THEOREM IMessageNothingSkipped == Spec => []NothingSkipped
<1>1. Spec => [](TypeOK /\ Inv)
  BY TypeInit, TypeNext, InvInit, InvNext, PTL DEF Spec
<1>2. Inv => NothingSkipped
  BY DEF Inv, NothingSkipped
<1> QED
  BY <1>1, <1>2, PTL

------------------------------------------------------------------------------
(* Order: what was sent is below lastROWID, or below the since of the poll *)
(* that is about to move lastROWID there.                                  *)

Active(l)   == pc[l] \in {"query", "sending", "marking"}
Below(l, n) == \A r \in Rows(l) : r <= n

Ordered(l) == \A i, j \in DOMAIN sent[l] : i < j => sent[l][i] < sent[l][j]

Ahead ==
  ~fellBack => \A l \in Listeners :
                 /\ Ordered(l)
                 /\ pc[l] # "marking" => Below(l, lastROWID)
                 /\ Active(l) => Below(l, since[l])

\* Without overlap one poll runs at a time, and it is above everything.
Alone ==
  ~fellBack /\ ~overlapped =>
    \A l, m \in Listeners :
      /\ Running(l) /\ Running(m) => l = m
      /\ Active(l) => Below(m, since[l])
      /\ l # m => Rows(l) \cap Rows(m) = {}

LEMMA OrderInit == Init => Ahead /\ Alone
  BY DEF Init, Ahead, Alone, Ordered, Active, Running, Below, Rows

\* A step that sends nothing and begins no poll.
LEMMA QuietStep ==
  ASSUME UNCHANGED <<sent, fellBack>>,
         \A l \in Listeners : Active(l)' => Active(l) /\ since'[l] = since[l]
  PROVE  /\ Ahead /\ UNCHANGED lastROWID
              /\ (\A l \in Listeners : pc[l] = "marking" => pc'[l] = "marking")
            => Ahead'
         /\ Alone /\ UNCHANGED overlapped
              /\ (\A l \in Listeners : Running(l)' => Running(l))
            => Alone'
<1>1. \A l \in Listeners : Rows(l)' = Rows(l) /\ (Ordered(l) => Ordered(l)')
  BY DEF Rows, Ordered
<1>2. ASSUME NEW l \in Listeners, NEW n PROVE Below(l, n) => (\A r \in Rows(l)' : r <= n)
  BY <1>1 DEF Below
<1>3. ASSUME Ahead, UNCHANGED lastROWID,
             \A l \in Listeners : pc[l] = "marking" => pc'[l] = "marking"
      PROVE  Ahead'
  BY <1>1, <1>3 DEF Ahead, Below
<1>4. ASSUME Alone, UNCHANGED overlapped, \A l \in Listeners : Running(l)' => Running(l)
      PROVE  Alone'
  BY <1>1, <1>4 DEF Alone, Below
<1> QED
  BY <1>3, <1>4

\* Where a step that is not a send or a PollStarts takes the listeners.
LEMMA QuietSteps ==
  ASSUME TypeOK,
         \/ RowArrives \/ Close \/ UNCHANGED vars
         \/ \E l \in Listeners :
              \/ Take(l) \/ CancelContext(l) \/ ListenerExits(l)
              \/ QueryOk(l) \/ QueryFails(l) \/ SendCancelled(l)
  PROVE  /\ UNCHANGED <<sent, fellBack, lastROWID, overlapped>>
         /\ \A l \in Listeners : Active(l)' => Active(l) /\ since'[l] = since[l]
         /\ \A l \in Listeners : pc[l] = "marking" => pc'[l] = "marking"
         /\ \A l \in Listeners : Running(l)' => Running(l)
<1>1. CASE \/ RowArrives \/ Close \/ UNCHANGED vars
           \/ \E l \in Listeners : Take(l) \/ CancelContext(l)
  <2>1. UNCHANGED <<sent, fellBack, lastROWID, overlapped, pc, since>>
    BY <1>1 DEF RowArrives, Close, Take, CancelContext, vars, adapter, local, history
  <2> QED
    BY <2>1 DEF Active, Running
<1>2. ASSUME NEW l \in Listeners, ListenerExits(l)
      PROVE  /\ UNCHANGED <<sent, fellBack, lastROWID, overlapped, since>>
             /\ pc[l] = "select" /\ pc' = [pc EXCEPT ![l] = "gone"]
  BY <1>2 DEF ListenerExits, Goto, adapter, history
<1>3. ASSUME NEW l \in Listeners, QueryOk(l) \/ QueryFails(l) \/ SendCancelled(l)
      PROVE  /\ UNCHANGED <<sent, fellBack, lastROWID, overlapped>>
             /\ pc[l] \in {"query", "sending"} /\ pc'[l] \in {"select", "sending"}
             /\ pc'[l] = "sending" => since'[l] = since[l]
             /\ \A m \in Listeners \ {l} : pc'[m] = pc[m] /\ since'[m] = since[m]
  <2>1. /\ UNCHANGED <<sent, fellBack, lastROWID, overlapped>>
        /\ pc[l] \in {"query", "sending"}
        /\ \E rest \in SUBSET Due(l) : Resume(l, rest)
    BY <1>3 DEF QueryOk, QueryFails, SendCancelled, adapter, history
  <2>2. PICK rest : Resume(l, rest)
    BY <2>1
  <2> QED
    BY <2>1, <2>2, ResumeLocal
<1>4. ASSUME NEW l \in Listeners, ListenerExits(l)
      PROVE  /\ \A m \in Listeners : Active(m)' => Active(m) /\ since'[m] = since[m]
             /\ \A m \in Listeners : pc[m] = "marking" => pc'[m] = "marking"
             /\ \A m \in Listeners : Running(m)' => Running(m)
  BY <1>2, <1>4 DEF TypeOK, Active, Running
<1>5. ASSUME NEW l \in Listeners, QueryOk(l) \/ QueryFails(l) \/ SendCancelled(l)
      PROVE  /\ \A m \in Listeners : Active(m)' => Active(m) /\ since'[m] = since[m]
             /\ \A m \in Listeners : pc[m] = "marking" => pc'[m] = "marking"
             /\ \A m \in Listeners : Running(m)' => Running(m)
  BY <1>3, <1>5 DEF Active, Running
<1> QED
  BY <1>1, <1>2, <1>3, <1>4, <1>5

LEMMA OrderNext == TypeOK /\ Inv /\ Ahead /\ Alone /\ [Next]_vars => Ahead' /\ Alone'
<1> SUFFICES ASSUME TypeOK, Inv, Ahead, Alone, [Next]_vars PROVE Ahead' /\ Alone'
  OBVIOUS
<1> USE BoundsAssumption
<1>0. TypeOK'
  BY TypeNext
<1>1. CASE \/ RowArrives \/ Close \/ UNCHANGED vars
           \/ \E l \in Listeners :
                \/ Take(l) \/ CancelContext(l) \/ ListenerExits(l)
                \/ QueryOk(l) \/ QueryFails(l) \/ SendCancelled(l)
  <2>1. /\ UNCHANGED <<sent, fellBack, lastROWID, overlapped>>
        /\ \A l \in Listeners : Active(l)' => Active(l) /\ since'[l] = since[l]
        /\ \A l \in Listeners : pc[l] = "marking" => pc'[l] = "marking"
        /\ \A l \in Listeners : Running(l)' => Running(l)
    BY <1>1, QuietSteps
  <2> QED
    BY <2>1, QuietStep
<1>2. CASE Connect
  <2>1. UNCHANGED <<pc, since, sent, overlapped>>
    BY <1>2 DEF Connect, local
  <2>2. fellBack' \/ (lastROWID' = rows /\ UNCHANGED fellBack)
    BY <1>2 DEF Connect
  <2>3. \A l \in Listeners : Rows(l)' = Rows(l) /\ (Ordered(l) => Ordered(l)')
    BY <2>1 DEF Rows, Ordered
  <2>4. \A l \in Listeners : \A r \in Rows(l) : r <= rows
    BY RowsInDatabase DEF TypeOK
  <2>5. Ahead'
    BY <2>1, <2>2, <2>3, <2>4 DEF Ahead, Below, Active
  <2>6. Alone'
    BY <2>1, <2>2, <2>3 DEF Alone, Below, Active, Running
  <2> QED
    BY <2>5, <2>6
<1>3. ASSUME NEW l \in Listeners, Listen(l) PROVE Ahead' /\ Alone'
  <2>1. /\ UNCHANGED <<sent, fellBack, lastROWID, since>>
        /\ pc[l] = "idle" /\ pc' = [pc EXCEPT ![l] = "select"]
        /\ overlapped' = (overlapped \/ \E m \in Listeners : Running(m))
    BY <1>3 DEF Listen, Goto, adapter
  <2>2. /\ \A m \in Listeners : Active(m)' => Active(m) /\ since'[m] = since[m]
        /\ \A m \in Listeners : pc[m] = "marking" => pc'[m] = "marking"
    BY <2>1 DEF TypeOK, Active
  <2>3. Ahead'
    BY <2>1, <2>2, QuietStep
  <2>4. ASSUME ~overlapped', NEW m \in Listeners, Running(m)' PROVE m = l
    BY <2>1, <2>4 DEF TypeOK, Running
  <2>5. ~overlapped' => ~overlapped
    BY <2>1
  <2>6. \A m \in Listeners : Rows(m)' = Rows(m)
    BY <2>1 DEF Rows
  <2>7. Alone'
    BY <2>1, <2>2, <2>4, <2>5, <2>6 DEF Alone, Below
  <2> QED
    BY <2>3, <2>7
<1>4. ASSUME NEW l \in Listeners, PollStarts(l) PROVE Ahead' /\ Alone'
  <2>1. /\ UNCHANGED <<sent, fellBack, lastROWID, overlapped>>
        /\ pc[l] = "select" /\ pc'[l] = "query" /\ since'[l] = lastROWID
        /\ \A m \in Listeners \ {l} : pc'[m] = pc[m] /\ since'[m] = since[m]
    BY <1>4 DEF TypeOK, PollStarts, Goto, adapter, history
  <2>2. \A m \in Listeners : Rows(m)' = Rows(m) /\ (Ordered(m) => Ordered(m)')
    BY <2>1 DEF Rows, Ordered
  <2>3. Ahead'
    BY <2>1, <2>2 DEF Ahead, Below, Active
  <2>4. \A m \in Listeners : Running(m)' <=> Running(m)
    BY <2>1 DEF Running
  <2>5. ASSUME ~fellBack, ~overlapped, NEW m \in Listeners PROVE Below(m, lastROWID)
    <3>1. pc[m] # "marking"
      BY <2>1, <2>5 DEF Alone, Running
    <3> QED
      BY <2>5, <3>1 DEF Ahead
  <2>6. ASSUME ~fellBack', ~overlapped', NEW k \in Listeners, NEW m \in Listeners, Active(k)'
        PROVE  Below(m, since[k])'
    <3>1. CASE k = l
      BY <2>1, <2>2, <2>5, <2>6, <3>1 DEF Below
    <3>2. CASE k # l
      BY <2>1, <2>2, <2>6, <3>2 DEF Alone, Below, Active
    <3> QED
      BY <3>1, <3>2
  <2>7. Alone'
    BY <2>1, <2>2, <2>4, <2>6 DEF Alone
  <2> QED
    BY <2>3, <2>7
<1>5. ASSUME NEW l \in Listeners, SendRow(l) PROVE Ahead' /\ Alone'
  <2>1. PICK r \in batch[l] : /\ sent' = [sent EXCEPT ![l] = Append(@, r)]
                              /\ since' = [since EXCEPT ![l] = r]
    BY <1>5 DEF SendRow
  <2>2. r \in 1..rows /\ since[l] < r /\ since[l] \in Nat /\ r \in Nat
    BY <2>1 DEF TypeOK, Inv, InHand
  <2>3. /\ Rows(l)' = Rows(l) \cup {r}
        /\ \A m \in Listeners \ {l} : Rows(m)' = Rows(m)
    BY <2>1, <2>2, AppendRows
  <2>4. /\ UNCHANGED <<fellBack, lastROWID, overlapped>>
        /\ pc[l] = "sending" /\ pc'[l] = "marking" /\ since'[l] = r
        /\ \A m \in Listeners \ {l} :
             pc'[m] = pc[m] /\ since'[m] = since[m] /\ sent'[m] = sent[m]
    BY <1>5, <2>1 DEF TypeOK, SendRow, Goto, adapter
  <2>5. \A m \in Listeners : Rows(m) \subseteq Nat
    <3>1. \A m \in Listeners : Rows(m) \subseteq 1..rows
      BY RowsInDatabase
    <3>2. 1..rows \subseteq Nat
      OBVIOUS
    <3> QED
      BY <3>1, <3>2, Zenon
  <2>6. ASSUME ~fellBack PROVE Ordered(l)'
    <3>1. /\ Len(sent[l]) \in Nat /\ DOMAIN sent[l] = 1..Len(sent[l])
          /\ sent[l] \in Seq(1..rows) /\ sent'[l] = Append(sent[l], r)
      BY <2>1 DEF TypeOK
    <3>2. /\ DOMAIN sent'[l] = 1..Len(sent[l]) + 1
          /\ \A i \in 1..Len(sent[l]) : sent'[l][i] = sent[l][i]
          /\ sent'[l][Len(sent[l]) + 1] = r
      BY <3>1
    <3>3. ASSUME NEW i \in 1..Len(sent[l]) PROVE sent[l][i] < r
      <4>1. sent[l][i] \in Rows(l)
        BY <3>1 DEF Rows
      <4>2. sent[l][i] <= since[l]
        BY <2>4, <2>6, <4>1 DEF Ahead, Active, Below
      <4> QED
        BY <2>2, <2>5, <4>1, <4>2
    <3>4. ASSUME NEW i \in DOMAIN sent'[l], NEW j \in DOMAIN sent'[l], i < j
          PROVE  sent'[l][i] < sent'[l][j]
      <4>1. i \in 1..Len(sent[l])
        BY <3>1, <3>2, <3>4
      <4>2. CASE j \in 1..Len(sent[l])
        BY <2>6, <3>1, <3>2, <3>4, <4>1, <4>2 DEF Ahead, Ordered
      <4>3. CASE j = Len(sent[l]) + 1
        BY <3>2, <3>3, <4>1, <4>3
      <4> QED
        BY <3>1, <3>2, <4>2, <4>3
    <3> QED
      BY <3>4 DEF Ordered
  <2>7. ASSUME NEW m \in Listeners, Below(m, since[l]) PROVE \A q \in Rows(m)' : q <= r
    <3>1. \A q \in Rows(m) : q <= r
      BY <2>2, <2>5, <2>7 DEF Below
    <3>2. Rows(m)' \subseteq Rows(m) \cup {r}
      BY <2>3
    <3> QED
      BY <2>2, <3>1, <3>2
  <2>8. Ahead'
    <3>1. ASSUME ~fellBack, NEW m \in Listeners \ {l}
          PROVE  /\ Ordered(m)'
                 /\ pc'[m] # "marking" => Below(m, lastROWID)'
                 /\ Active(m)' => Below(m, since[m])'
      <4>1. Ordered(m)'
        BY <2>4, <3>1 DEF Ahead, Ordered
      <4> QED
        BY <2>3, <2>4, <3>1, <4>1 DEF Ahead, Below, Active
    <3>2. ASSUME ~fellBack PROVE Below(l, since[l])'
      BY <2>4, <2>7, <3>2 DEF Ahead, Active, Below
    <3> QED
      BY <2>4, <2>6, <3>1, <3>2 DEF Ahead
  <2>9. Alone'
    <3> SUFFICES ASSUME ~fellBack, ~overlapped, NEW k \in Listeners, NEW m \in Listeners
                 PROVE  /\ Running(k)' /\ Running(m)' => k = m
                        /\ Active(k)' => Below(m, since[k])'
                        /\ k # m => Rows(k)' \cap Rows(m)' = {}
      BY <2>4 DEF Alone
    <3>1. \A n \in Listeners : Running(n)' <=> Running(n)
      BY <2>4 DEF Running
    <3>2. \A n \in Listeners : Active(n)' => n = l
      BY <2>4 DEF Alone, Active, Running
    <3>3. Below(m, since[l])'
      BY <2>4, <2>7 DEF Alone, Active, Below
    <3>4. \A n \in Listeners : r \notin Rows(n)
      <4>1. \A n \in Listeners : \A q \in Rows(n) : q <= since[l]
        BY <2>4 DEF Alone, Active, Below
      <4> QED
        BY <2>2, <4>1
    <3>5. k # m => Rows(k)' \cap Rows(m)' = {}
      BY <2>3, <3>4 DEF Alone
    <3> QED
      BY <3>1, <3>2, <3>3, <3>5 DEF Alone
  <2> QED
    BY <2>8, <2>9
<1>6. ASSUME NEW l \in Listeners, MarkRow(l) PROVE Ahead' /\ Alone'
  <2>1. /\ UNCHANGED <<sent, fellBack, overlapped>>
        /\ pc[l] = "marking" /\ Resume(l, batch[l])
        /\ lastROWID' = IF since[l] > lastROWID THEN since[l] ELSE lastROWID
    BY <1>6 DEF MarkRow, history
  <2>2. /\ pc'[l] \in {"select", "sending"}
        /\ pc'[l] = "sending" => since'[l] = since[l]
        /\ \A m \in Listeners \ {l} : pc'[m] = pc[m] /\ since'[m] = since[m]
    BY <2>1, ResumeLocal
  <2>3. \A m \in Listeners : Active(m)' => Active(m) /\ since'[m] = since[m]
    BY <2>1, <2>2 DEF Active
  <2>4. Alone'
    <3>1. \A m \in Listeners : Running(m)' => Running(m)
      BY <2>1, <2>2 DEF Running
    <3> QED
      BY <2>1, <2>3, <3>1, QuietStep
  <2>5. Ahead'
    <3>1. \A m \in Listeners : Rows(m)' = Rows(m) /\ (Ordered(m) => Ordered(m)')
      BY <2>1 DEF Rows, Ordered
    <3>2. \A m \in Listeners : Rows(m) \subseteq Nat
      BY RowsInDatabase DEF TypeOK
    <3>3. /\ lastROWID' \in Nat /\ lastROWID \in Nat /\ since[l] \in Nat
          /\ lastROWID <= lastROWID' /\ since[l] <= lastROWID'
      BY <2>1 DEF TypeOK
    <3>4. ASSUME ~fellBack, NEW m \in Listeners, pc'[m] # "marking"
          PROVE  \A q \in Rows(m) : q <= lastROWID'
      <4>1. CASE m = l
        <5>1. \A q \in Rows(l) : q <= since[l]
          BY <2>1, <3>4 DEF Ahead, Active, Below
        <5> QED
          BY <3>2, <3>3, <4>1, <5>1
      <4>2. CASE m # l
        <5>1. \A q \in Rows(m) : q <= lastROWID
          BY <2>2, <3>4, <4>2 DEF Ahead, Below
        <5> QED
          BY <3>2, <3>3, <5>1
      <4> QED
        BY <4>1, <4>2
    <3> QED
      BY <2>1, <2>3, <3>1, <3>4 DEF Ahead, Below
  <2> QED
    BY <2>4, <2>5
<1> QED
  BY <1>1, <1>2, <1>3, <1>4, <1>5, <1>6 DEF Next, Continue, Terminated

\* Unless a Connect had to assume row 0, no channel repeats a message or goes
\* back, for any number of listeners on the same adapter.
THEOREM IMessageChannelInOrder == Spec => []ChannelInOrder
<1>1. Spec => [](TypeOK /\ Inv /\ Ahead /\ Alone)
  BY TypeInit, TypeNext, InvInit, InvNext, OrderInit, OrderNext, PTL DEF Spec
<1>2. Ahead => ChannelInOrder
  BY DEF Ahead, ChannelInOrder, Ordered
<1> QED
  BY <1>1, <1>2, PTL

\* Listeners that follow one another, however many, never send a message
\* twice between them.
THEOREM IMessageHandedOverOnce == Spec => []HandedOverOnce
<1>1. Spec => [](TypeOK /\ Inv /\ Ahead /\ Alone)
  BY TypeInit, TypeNext, InvInit, InvNext, OrderInit, OrderNext, PTL DEF Spec
<1>2. Alone => HandedOverOnce
  BY DEF Alone, HandedOverOnce, Rows
<1> QED
  BY <1>1, <1>2, PTL

------------------------------------------------------------------------------
(* The poller implements a feed that may be opened again.                  *)

\* Only RowArrives, Connect, QueryOk, SendRow and MarkRow are seen by the readers.
LEMMA HiddenSteps ==
  ASSUME \/ Close \/ UNCHANGED vars
         \/ \E l \in Listeners :
              \/ Take(l) \/ CancelContext(l) \/ Listen(l) \/ ListenerExits(l)
              \/ PollStarts(l) \/ QueryFails(l) \/ SendCancelled(l)
  PROVE  UNCHANGED <<rows, lastROWID, base, sent, unread>>
  BY DEF Close, Take, CancelContext, Listen, ListenerExits, PollStarts, QueryFails,
         SendCancelled, vars, adapter, local, history

LEMMA FeedStep ==
  TypeOK /\ TypeOK' /\ Inv /\ Inv' /\ [Next]_vars => [Feed!ReopenedNext]_(Feed!reopenedVars)
<1> SUFFICES ASSUME TypeOK, TypeOK', Inv, Inv', [Next]_vars
             PROVE  [Feed!ReopenedNext]_(Feed!reopenedVars)
  OBVIOUS
<1> USE BoundsAssumption
<1>r. UNCHANGED sent => UNCHANGED Received
  BY DEF Received, Rows
<1>s. ASSUME UNCHANGED <<rows, lastROWID, base, sent, unread>> PROVE UNCHANGED Feed!reopenedVars
  BY <1>r, <1>s DEF Feed!reopenedVars, Feed!vars
<1>1. CASE RowArrives
  <2>1. rows' = rows + 1 /\ UNCHANGED <<lastROWID, base, sent, unread>>
    BY <1>1 DEF RowArrives, adapter, history
  <2> QED
    BY <1>r, <2>1 DEF Feed!ReopenedNext, Feed!Arrive
<1>2. CASE Connect
  <2>1. base' = rows /\ lastROWID' \in {0, rows} /\ UNCHANGED <<rows, sent, unread>>
    BY <1>2 DEF Connect
  <2> QED
    BY <1>r, <2>1 DEF Feed!ReopenedNext, Feed!Reopen
<1>3. ASSUME NEW l \in Listeners, SendRow(l) PROVE Feed!ReopenedNext
  <2>1. PICK r \in batch[l] : sent' = [sent EXCEPT ![l] = Append(@, r)]
    BY <1>3 DEF SendRow
  <2>2. r \in Wanted /\ r \in 1..rows
    BY DEF TypeOK, Inv, InHand
  <2>3. Received' = Received \cup {r}
    BY <2>1, <2>2, AppendRows
  <2>4. UNCHANGED <<rows, lastROWID, base, unread>>
    BY <1>3 DEF SendRow, adapter
  <2>5. r <= rows
    BY <2>2 DEF TypeOK
  <2>6. Feed!Deliver(r)
    BY <2>2, <2>3, <2>4, <2>5 DEF Feed!Deliver
  <2> QED
    BY <2>2, <2>4, <2>6 DEF Feed!ReopenedNext
<1>4. ASSUME NEW l \in Listeners, MarkRow(l) PROVE [Feed!ReopenedNext]_(Feed!reopenedVars)
  <2>1. /\ UNCHANGED <<rows, sent, base, unread>>
        /\ lastROWID' = IF since[l] > lastROWID THEN since[l] ELSE lastROWID
    BY <1>4 DEF MarkRow, history
  <2>2. CASE since[l] > lastROWID
    <3>1. since[l] \in 1..rows /\ lastROWID < since[l] /\ since[l] <= rows
      BY <2>2 DEF TypeOK
    <3>2. UNCHANGED Received
      BY <1>r, <2>1
    <3>3. \A q \in Wanted : base < q /\ q <= since[l] => q \in Received \cup unread
      BY DEF Inv, InHand
    <3>4. Feed!AdvanceFromBase(since[l])
      BY <2>1, <2>2, <3>1, <3>2, <3>3 DEF Feed!AdvanceFromBase
    <3> QED
      BY <3>1, <3>4 DEF Feed!ReopenedNext
  <2>3. CASE ~(since[l] > lastROWID)
    BY <1>s, <2>1, <2>3
  <2> QED
    BY <2>2, <2>3
<1>5. ASSUME NEW l \in Listeners, QueryOk(l) PROVE Feed!ReopenedNext
  <2>1. PICK read \in SUBSET Due(l) :
          unread' = unread \cup {r \in Due(l) \ read : \E q \in read : r < q}
    BY <1>5 DEF QueryOk
  <2> DEFINE U == {r \in Due(l) \ read : \E q \in read : r < q}
  <2>2. U \in SUBSET {u \in Wanted : u <= rows}
    BY DEF Due
  <2>3. UNCHANGED <<rows, lastROWID, base, sent>>
    BY <1>5 DEF QueryOk, adapter
  <2>4. unread' = unread \cup U
    BY <2>1
  <2> HIDE DEF U
  <2>5. Feed!Lose(U)
    BY <1>r, <2>3, <2>4 DEF Feed!Lose
  <2> QED
    BY <2>2, <2>5 DEF Feed!ReopenedNext
<1> QED
  BY <1>s, <1>1, <1>2, <1>3, <1>4, <1>5, HiddenSteps DEF Next, Continue, Terminated

\* The iMessage adapter implements ReopenedFeed: what it delivers is wanted and
\* was in the database; lastROWID goes back only when a Connect could not read
\* the last row, and a poll, stale or not, moves it only over what was sent or
\* could not be read.
THEOREM IMessageImplementsFeed == Spec => ImplementsReopenedFeed
<1>1. Init => Feed!ReopenedInit
  <2>1. Init => Received = {}
    BY DEF Init, Received, Rows
  <2> QED
    BY <2>1 DEF Init, Feed!ReopenedInit, Feed!Init
<1>2. Spec => [](TypeOK /\ Inv)
  BY TypeInit, TypeNext, InvInit, InvNext, PTL DEF Spec
<1>3. /\ TypeOK /\ TypeOK' /\ Inv /\ Inv' /\ [Next]_vars
        => [Feed!ReopenedNext]_(Feed!reopenedVars)
  BY FeedStep
<1> QED
  BY <1>1, <1>2, <1>3, PTL DEF Spec, ImplementsReopenedFeed, Feed!ReopenedSpec
==============================================================================
