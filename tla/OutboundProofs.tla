---------------------------- MODULE OutboundProofs ----------------------------
(***************************************************************************)
(* Proofs about Outbound, for any senders, texts, limit and prefix.        *)
(*                                                                         *)
(* The slices are right because each is added at the place where the one   *)
(* before it ended (Cuts); a Send fails by itself only at a continuation   *)
(* because exactly the first slice has no prefix (Marked).                 *)
(***************************************************************************)
EXTENDS Outbound, SequenceTheorems, TLAPS

Busy(s) == pc[s] \in {"cutting", "sending"}

\* A Send that is not yet sending is at its first chunk.
Early ==
  \A s \in Senders :
    /\ pc[s] \in {"idle", "cutting"} => next[s] = 1
    /\ pc[s] = "idle" => chunks[s] = <<>> /\ rest[s] = 0
    /\ pc[s] = "cutting" => rest[s] < text[s].len

------------------------------------------------------------------------------
(* Slices.                                                                 *)

Cuts(sq, end, len) ==
  /\ sq = <<>> => end = 0
  /\ \A i \in DOMAIN sq :
       /\ sq[i].from = IF i = 1 THEN 0 ELSE sq[i - 1].to
       /\ sq[i].from < sq[i].to \/ len = 0
       /\ sq[i].to - sq[i].from <= MaxLen
       /\ i = Len(sq) => sq[i].to = end

Marked(sq) == \A i \in DOMAIN sq : sq[i].cont <=> i > 1

LEMMA LimitIsPositive == MaxLen \in Nat /\ MaxLen > 0 /\ PrefixLen \in Nat
  BY OutboundAssumption

LEMMA TextTypes ==
  ASSUME NEW t \in Texts \cup {NoText} PROVE t.len \in Nat
  BY OutboundAssumption DEF NoText

\* A slice that begins where the others end, is not empty and is not too long
\* may be added to them.
LEMMA AddSlice ==
  ASSUME NEW sq \in Seq(Slices), NEW c \in Slices, NEW start \in Nat, NEW len \in Nat,
         Cuts(sq, start, len), c.from = start, c.from < c.to, c.to - c.from <= MaxLen
  PROVE  Cuts(Append(sq, c), c.to, len)
<1> DEFINE new == Append(sq, c)
<1>1. /\ Len(sq) \in Nat /\ DOMAIN sq = 1..Len(sq)
      /\ new \in Seq(Slices) /\ Len(new) = Len(sq) + 1 /\ DOMAIN new = 1..Len(sq) + 1
      /\ \A i \in 1..Len(sq) : new[i] = sq[i]
      /\ new[Len(sq) + 1] = c /\ new # <<>>
  <2>1. new \in Seq(Slices)
    BY AppendProperties
  <2> QED
    BY <2>1, AppendProperties, LenProperties
<1> HIDE DEF new
<1>2. ASSUME NEW i \in DOMAIN new
      PROVE  /\ new[i].from = IF i = 1 THEN 0 ELSE new[i - 1].to
             /\ new[i].from < new[i].to \/ len = 0
             /\ new[i].to - new[i].from <= MaxLen
             /\ i = Len(new) => new[i].to = c.to
  <2>1. CASE i \in 1..Len(sq)
    <3>1. new[i] = sq[i] /\ i # Len(new)
      BY <1>1, <2>1
    <3>2. i # 1 => i - 1 \in 1..Len(sq)
      BY <1>1, <2>1
    <3> QED
      BY <1>1, <2>1, <3>1, <3>2 DEF Cuts
  <2>2. CASE i = Len(sq) + 1
    <3>1. CASE sq = <<>>
      BY <1>1, <2>2, <3>1 DEF Cuts
    <3>2. CASE sq # <<>>
      <4>1. Len(sq) \in DOMAIN sq
        BY <1>1, <3>2, EmptySeq
      <4>2. new[i - 1].to = start
        BY <1>1, <2>2, <4>1 DEF Cuts
      <4> QED
        BY <1>1, <2>2, <4>1, <4>2
    <3> QED
      BY <3>1, <3>2
  <2> QED
    BY <1>1, <2>1, <2>2
<1> QED
  BY <1>1, <1>2 DEF Cuts, new

LEMMA AddMark ==
  ASSUME NEW sq \in Seq(Slices), NEW c \in Slices, Marked(sq), c.cont = (sq # <<>>)
  PROVE  Marked(Append(sq, c))
<1>1. /\ Len(sq) \in Nat /\ DOMAIN sq = 1..Len(sq)
      /\ DOMAIN Append(sq, c) = 1..Len(sq) + 1
      /\ \A i \in 1..Len(sq) : Append(sq, c)[i] = sq[i]
      /\ Append(sq, c)[Len(sq) + 1] = c
  <2>1. Append(sq, c) \in Seq(Slices)
    BY AppendProperties
  <2> QED
    BY <2>1, AppendProperties, LenProperties
<1>2. c.cont <=> Len(sq) + 1 > 1
  <2>1. c.cont <=> sq # <<>>
    OBVIOUS
  <2>2. sq # <<>> <=> Len(sq) > 0
    BY <1>1, EmptySeq
  <2> QED
    BY <1>1, <2>1, <2>2
<1>3. ASSUME NEW i \in DOMAIN Append(sq, c) PROVE Append(sq, c)[i].cont <=> i > 1
  <2>1. CASE i \in DOMAIN sq
    BY <1>1, <2>1 DEF Marked
  <2>2. CASE i = Len(sq) + 1
    BY <1>1, <1>2, <2>2
  <2> QED
    BY <1>1, <2>1, <2>2
<1> QED
  BY <1>3 DEF Marked

------------------------------------------------------------------------------
(* Typing.                                                                 *)

LEMMA TypeInit == Init => TypeOK /\ Early
<1>1. Init => /\ pc \in [Senders -> {"idle", "cutting", "sending", "done"}]
              /\ text \in [Senders -> Texts \cup {NoText}]
              /\ rest \in [Senders -> Nat] /\ next \in [Senders -> Nat]
              /\ result \in [Senders -> {"none", "ok", "error"}]
              /\ fault \in [Senders -> BOOLEAN] /\ mu \subseteq Senders
  BY DEF Init
<1>2. Init => /\ chunks \in [Senders -> Seq(Slices)]
              /\ received \in Seq([sender : Senders, chunk : Slices])
  BY DEF Init
<1>3. Init => \A s \in Senders : /\ rest[s] <= text[s].len
                                 /\ pc[s] = "sending" => next[s] \in DOMAIN chunks[s]
  <2> SUFFICES ASSUME Init, NEW s \in Senders
               PROVE  rest[s] <= text[s].len /\ pc[s] # "sending"
    OBVIOUS
  <2>1. rest[s] = 0 /\ text[s] = NoText /\ pc[s] = "idle"
    BY DEF Init
  <2> QED
    BY <2>1 DEF NoText
<1>4. Init => connected \in BOOLEAN /\ platform \in {"discord", "telegram", "imessage"}
  BY DEF Init
<1>5. Init => TypeOK
  BY <1>1, <1>2, <1>3, <1>4 DEF TypeOK
<1>6. Init => Early
  BY DEF Init, Early
<1> QED
  BY <1>5, <1>6

\* The new slice is one, and only s is touched.
LEMMA AddChunkTypes ==
  ASSUME TypeOK, NEW s \in Senders, NEW end \in Nat, AddChunk(s, end)
  PROVE  LET c == [from |-> rest[s], to |-> end, cont |-> chunks[s] # <<>>] IN
         /\ c \in Slices
         /\ chunks'[s] = Append(chunks[s], c) /\ rest'[s] = end
         /\ chunks' \in [Senders -> Seq(Slices)] /\ rest' \in [Senders -> Nat]
         /\ \A m \in Senders \ {s} : chunks'[m] = chunks[m] /\ rest'[m] = rest[m]
<1> DEFINE c == [from |-> rest[s], to |-> end, cont |-> chunks[s] # <<>>]
<1>1. c \in Slices
  BY DEF TypeOK, Slices
<1>2. chunks' = [chunks EXCEPT ![s] = Append(@, c)] /\ rest' = [rest EXCEPT ![s] = end]
  BY DEF AddChunk
<1> HIDE DEF c
<1>3. Append(chunks[s], c) \in Seq(Slices)
  BY <1>1 DEF TypeOK
<1>4. /\ chunks'[s] = Append(chunks[s], c) /\ rest'[s] = end
      /\ chunks' \in [Senders -> Seq(Slices)] /\ rest' \in [Senders -> Nat]
      /\ \A m \in Senders \ {s} : chunks'[m] = chunks[m] /\ rest'[m] = rest[m]
  BY <1>2, <1>3 DEF TypeOK
<1> QED
  BY <1>1, <1>4 DEF c

\* What Returns sets.
LEMMA ReturnsTypes ==
  ASSUME TypeOK, NEW s \in Senders, NEW r \in {"ok", "error"}, Returns(s, r)
  PROVE  /\ pc' \in [Senders -> {"idle", "cutting", "sending", "done"}]
         /\ result' \in [Senders -> {"none", "ok", "error"}]
         /\ mu' \subseteq Senders
         /\ pc'[s] = "done" /\ result'[s] = r
         /\ \A m \in Senders \ {s} : pc'[m] = pc[m] /\ result'[m] = result[m]
  BY DEF TypeOK, Returns

\* What Arrives adds.
LEMMA ArrivesTypes ==
  ASSUME TypeOK, NEW s \in Senders, pc[s] = "sending", Arrives(s)
  PROVE  /\ received' = Append(received, [sender |-> s, chunk |-> chunks[s][next[s]]])
         /\ [sender |-> s, chunk |-> chunks[s][next[s]]] \in [sender : Senders, chunk : Slices]
         /\ received' \in Seq([sender : Senders, chunk : Slices])
<1>1. chunks[s] \in Seq(Slices) /\ next[s] \in DOMAIN chunks[s]
  BY DEF TypeOK
<1>2. chunks[s][next[s]] \in Slices
  BY <1>1
<1> QED
  BY <1>2 DEF TypeOK, Arrives

LEMMA CutPointTypes ==
  ASSUME NEW t, NEW start \in Nat, NEW e \in CutPoint(t, start)
  PROVE  e \in Nat /\ start < e /\ e <= start + MaxLen
  BY LimitIsPositive DEF CutPoint

LEMMA TypeNext == TypeOK /\ Early /\ [Next]_vars => TypeOK' /\ Early'
<1> SUFFICES ASSUME TypeOK, Early, [Next]_vars PROVE TypeOK' /\ Early'
  OBVIOUS
<1>1. CASE Connect \/ Close \/ UNCHANGED vars
  BY <1>1 DEF TypeOK, Early, Connect, Close, vars, call
<1>2. ASSUME NEW s \in Senders, SendStarts(s) PROVE TypeOK' /\ Early'
  <2>1. PICK t \in Texts :
          /\ text' = [text EXCEPT ![s] = t]
          /\ \/ /\ t.len <= MaxLen
                /\ chunks' = [chunks EXCEPT ![s] = <<[from |-> 0, to |-> t.len, cont |-> FALSE]>>]
                /\ rest'   = [rest EXCEPT ![s] = t.len]
                /\ pc'     = [pc EXCEPT ![s] = "sending"]
             \/ /\ t.len > MaxLen
                /\ pc' = [pc EXCEPT ![s] = "cutting"]
                /\ UNCHANGED <<chunks, rest>>
    BY <1>2 DEF SendStarts
  <2>2. t.len \in Nat
    BY TextTypes
  <2>3. /\ text' \in [Senders -> Texts \cup {NoText}] /\ text'[s] = t
        /\ mu' \subseteq Senders
        /\ UNCHANGED <<platform, connected, next, result, fault, received>>
        /\ next[s] = 1 /\ rest[s] = 0
        /\ \A m \in Senders \ {s} : text'[m] = text[m]
    BY <1>2, <2>1 DEF TypeOK, Early, SendStarts
  <2>4. CASE /\ t.len <= MaxLen
             /\ chunks' = [chunks EXCEPT ![s] = <<[from |-> 0, to |-> t.len, cont |-> FALSE]>>]
             /\ rest'   = [rest EXCEPT ![s] = t.len]
             /\ pc'     = [pc EXCEPT ![s] = "sending"]
    <3> DEFINE one == <<[from |-> 0, to |-> t.len, cont |-> FALSE]>>
    <3>1. one \in Seq(Slices) /\ 1 \in DOMAIN one
      BY <2>2 DEF Slices
    <3> HIDE DEF one
    <3>2. chunks' = [chunks EXCEPT ![s] = one]
      BY <2>4 DEF one
    <3>3. /\ chunks' \in [Senders -> Seq(Slices)] /\ chunks'[s] = one
          /\ \A m \in Senders \ {s} : chunks'[m] = chunks[m]
      BY <3>1, <3>2 DEF TypeOK
    <3>4. /\ rest' \in [Senders -> Nat] /\ rest'[s] = t.len /\ pc'[s] = "sending"
          /\ pc' \in [Senders -> {"idle", "cutting", "sending", "done"}]
          /\ \A m \in Senders \ {s} : pc'[m] = pc[m] /\ rest'[m] = rest[m]
      BY <2>2, <2>4 DEF TypeOK
    <3>5. \A m \in Senders : /\ rest'[m] <= text'[m].len
                             /\ pc'[m] = "sending" => next'[m] \in DOMAIN chunks'[m]
      <4>1. /\ rest'[s] <= text'[s].len
            /\ next'[s] \in DOMAIN chunks'[s]
        BY <2>2, <2>3, <3>1, <3>3, <3>4
      <4>2. \A m \in Senders : /\ rest[m] <= text[m].len
                               /\ pc[m] = "sending" => next[m] \in DOMAIN chunks[m]
        BY DEF TypeOK
      <4> QED
        BY <2>3, <3>3, <3>4, <4>1, <4>2
    <3>6. TypeOK'
      BY <2>3, <3>3, <3>4, <3>5 DEF TypeOK
    <3>7. Early'
      BY <2>3, <3>3, <3>4 DEF Early
    <3> QED
      BY <3>6, <3>7
  <2>5. CASE /\ t.len > MaxLen
             /\ pc' = [pc EXCEPT ![s] = "cutting"]
             /\ UNCHANGED <<chunks, rest>>
    <3>1. /\ pc' \in [Senders -> {"idle", "cutting", "sending", "done"}] /\ pc'[s] = "cutting"
          /\ \A m \in Senders \ {s} : pc'[m] = pc[m]
      BY <2>5 DEF TypeOK
    <3>2. rest[s] < t.len /\ rest[s] <= t.len
      BY <2>2, <2>3, <2>5, LimitIsPositive
    <3>3. TypeOK'
      BY <2>3, <2>5, <3>1, <3>2 DEF TypeOK
    <3>4. Early'
      BY <2>3, <2>5, <3>1, <3>2 DEF Early
    <3> QED
      BY <3>3, <3>4
  <2> QED
    BY <2>1, <2>4, <2>5
<1>3. ASSUME NEW s \in Senders, Cut(s) PROVE TypeOK' /\ Early'
  <2>1. PICK e \in CutPoint(text[s], rest[s]) : AddChunk(s, e)
    BY <1>3 DEF Cut
  <2>2. text[s].len \in Nat /\ rest[s] \in Nat /\ text[s].len - rest[s] > MaxLen
    BY <1>3, TextTypes DEF TypeOK, Cut
  <2>3. e \in Nat /\ e < text[s].len
    BY <2>2, CutPointTypes, LimitIsPositive
  <2>4. /\ UNCHANGED <<platform, connected, mu, pc, text, next, result, fault, received>>
        /\ pc[s] = "cutting"
    BY <1>3 DEF Cut
  <2>5. /\ rest'[s] = e /\ chunks' \in [Senders -> Seq(Slices)] /\ rest' \in [Senders -> Nat]
        /\ \A m \in Senders \ {s} : chunks'[m] = chunks[m] /\ rest'[m] = rest[m]
    BY <2>1, <2>3, AddChunkTypes
  <2>6. TypeOK'
    <3>1. \A m \in Senders : rest'[m] <= text'[m].len
      <4>1. rest'[s] <= text'[s].len
        BY <2>2, <2>3, <2>4, <2>5
      <4>2. \A m \in Senders : rest[m] <= text[m].len
        BY DEF TypeOK
      <4> QED
        BY <2>4, <2>5, <4>1, <4>2
    <3>2. \A m \in Senders : pc'[m] = "sending" => next'[m] \in DOMAIN chunks'[m]
      BY <2>4, <2>5 DEF TypeOK
    <3> QED
      BY <2>4, <2>5, <3>1, <3>2 DEF TypeOK
  <2>7. Early'
    BY <2>3, <2>4, <2>5 DEF Early
  <2> QED
    BY <2>6, <2>7
<1>4. ASSUME NEW s \in Senders, CutLast(s) PROVE TypeOK' /\ Early'
  <2>1. /\ AddChunk(s, text[s].len) /\ pc[s] = "cutting"
        /\ pc' = [pc EXCEPT ![s] = "sending"]
        /\ UNCHANGED <<platform, connected, mu, text, next, result, fault, received>>
    BY <1>4 DEF CutLast
  <2>2. text[s].len \in Nat
    BY TextTypes DEF TypeOK
  <2>3. PICK c \in Slices : chunks'[s] = Append(chunks[s], c)
    BY <2>1, <2>2, AddChunkTypes
  <2>4. /\ rest'[s] = text[s].len
        /\ chunks' \in [Senders -> Seq(Slices)] /\ rest' \in [Senders -> Nat]
        /\ \A m \in Senders \ {s} : chunks'[m] = chunks[m] /\ rest'[m] = rest[m]
    BY <2>1, <2>2, AddChunkTypes
  <2>5. next'[s] \in DOMAIN chunks'[s]
    <3>1. next'[s] = 1 /\ chunks[s] \in Seq(Slices)
      BY <2>1 DEF TypeOK, Early
    <3>2. Len(chunks[s]) \in Nat /\ DOMAIN chunks'[s] = 1..Len(chunks[s]) + 1
      BY <2>3, <3>1
    <3> QED
      BY <3>1, <3>2
  <2>6. /\ pc' \in [Senders -> {"idle", "cutting", "sending", "done"}] /\ pc'[s] = "sending"
        /\ \A m \in Senders \ {s} : pc'[m] = pc[m]
    BY <2>1 DEF TypeOK
  <2>7. TypeOK'
    <3>1. \A m \in Senders : rest'[m] <= text'[m].len
      <4>1. rest'[s] <= text'[s].len
        BY <2>1, <2>2, <2>4
      <4>2. \A m \in Senders : rest[m] <= text[m].len
        BY DEF TypeOK
      <4> QED
        BY <2>1, <2>4, <4>1, <4>2
    <3>2. \A m \in Senders : pc'[m] = "sending" => next'[m] \in DOMAIN chunks'[m]
      BY <2>1, <2>4, <2>5, <2>6 DEF TypeOK
    <3> QED
      BY <2>1, <2>4, <2>6, <3>1, <3>2 DEF TypeOK
  <2>8. Early'
    BY <2>1, <2>4, <2>6 DEF Early
  <2> QED
    BY <2>7, <2>8
<1>5. ASSUME NEW s \in Senders, Accepted(s) PROVE TypeOK' /\ Early'
  <2>1. /\ pc[s] = "sending" /\ Arrives(s) /\ next' = [next EXCEPT ![s] = @ + 1]
        /\ UNCHANGED <<platform, connected, text, rest, chunks, fault>>
        /\ \/ next[s] = Len(chunks[s]) /\ Returns(s, "ok")
           \/ next[s] < Len(chunks[s]) /\ UNCHANGED <<mu, pc, result>>
    BY <1>5 DEF Accepted
  <2>2. received' \in Seq([sender : Senders, chunk : Slices])
    BY <2>1, ArrivesTypes
  <2>3. /\ next' \in [Senders -> Nat] /\ next'[s] = next[s] + 1
        /\ \A m \in Senders \ {s} : next'[m] = next[m]
    BY <2>1 DEF TypeOK
  <2>4. CASE next[s] = Len(chunks[s]) /\ Returns(s, "ok")
    <3>1. /\ pc' \in [Senders -> {"idle", "cutting", "sending", "done"}]
          /\ result' \in [Senders -> {"none", "ok", "error"}]
          /\ mu' \subseteq Senders /\ pc'[s] = "done"
          /\ \A m \in Senders \ {s} : pc'[m] = pc[m]
      BY <2>4, ReturnsTypes
    <3>2. TypeOK'
      BY <2>1, <2>2, <2>3, <3>1 DEF TypeOK
    <3>3. Early'
      BY <2>1, <2>3, <3>1 DEF Early
    <3> QED
      BY <3>2, <3>3
  <2>5. CASE next[s] < Len(chunks[s]) /\ UNCHANGED <<mu, pc, result>>
    <3>1. next'[s] \in DOMAIN chunks'[s]
      <4>1. next[s] \in Nat /\ chunks[s] \in Seq(Slices)
        BY DEF TypeOK
      <4>2. DOMAIN chunks[s] = 1..Len(chunks[s]) /\ Len(chunks[s]) \in Nat
        BY <4>1
      <4> QED
        BY <2>1, <2>3, <2>5, <4>1, <4>2
    <3>2. TypeOK'
      BY <2>1, <2>2, <2>3, <2>5, <3>1 DEF TypeOK
    <3>3. Early'
      BY <2>1, <2>3, <2>5 DEF Early
    <3> QED
      BY <3>2, <3>3
  <2> QED
    BY <2>1, <2>4, <2>5
<1>6. ASSUME NEW s \in Senders, Fails(s) PROVE TypeOK' /\ Early'
  <2>1. /\ pc[s] = "sending" /\ Returns(s, "error") /\ (Arrives(s) \/ UNCHANGED received)
        /\ fault' = [fault EXCEPT ![s] = TRUE] \/ UNCHANGED fault
        /\ UNCHANGED <<platform, connected, text, rest, chunks, next>>
    BY <1>6 DEF Fails
  <2>2. received' \in Seq([sender : Senders, chunk : Slices])
    BY <2>1, ArrivesTypes DEF TypeOK
  <2>3. /\ pc' \in [Senders -> {"idle", "cutting", "sending", "done"}]
        /\ result' \in [Senders -> {"none", "ok", "error"}]
        /\ mu' \subseteq Senders /\ pc'[s] = "done"
        /\ \A m \in Senders \ {s} : pc'[m] = pc[m]
    BY <2>1, ReturnsTypes
  <2>4. fault' \in [Senders -> BOOLEAN]
    BY <2>1 DEF TypeOK
  <2>5. TypeOK'
    BY <2>1, <2>2, <2>3, <2>4 DEF TypeOK
  <2>6. Early'
    BY <2>1, <2>3 DEF Early
  <2> QED
    BY <2>5, <2>6
<1> QED
  BY <1>1, <1>2, <1>3, <1>4, <1>5, <1>6 DEF Next, Continue

\* Send's state keeps its types: the slices never go beyond the message, and
\* a Send that is sending has a chunk to send.
THEOREM OutboundTyping == Spec => []TypeOK
<1> QED
  BY TypeInit, TypeNext, PTL DEF Spec

------------------------------------------------------------------------------
(* The slices and the failures.                                            *)

Sliced == \A s \in Senders : Cuts(chunks[s], rest[s], text[s].len) /\ Marked(chunks[s])

\* Only a Send that has returned has a result.
Pending == \A s \in Senders : pc[s] # "done" => result[s] = "none"

Inv == Sliced /\ Pending /\ FailureHasCause

LEMMA InvInit == Init => Inv
  BY DEF Init, Inv, Sliced, Cuts, Marked, Pending, FailureHasCause

\* The steps that add a slice to a message that is being cut.
LEMMA SlicedByAddChunk ==
  ASSUME TypeOK, Sliced, NEW s \in Senders, NEW end \in Nat, AddChunk(s, end),
         rest[s] < end, end - rest[s] <= MaxLen, UNCHANGED text
  PROVE  Sliced'
<1> DEFINE c == [from |-> rest[s], to |-> end, cont |-> chunks[s] # <<>>]
<1>1. /\ c \in Slices
      /\ chunks'[s] = Append(chunks[s], c) /\ rest'[s] = end
      /\ \A m \in Senders \ {s} : chunks'[m] = chunks[m] /\ rest'[m] = rest[m]
  BY AddChunkTypes
<1>2. /\ chunks[s] \in Seq(Slices) /\ rest[s] \in Nat /\ text[s].len \in Nat
  BY TextTypes DEF TypeOK
<1>3. /\ c.from = rest[s] /\ c.to = end /\ c.cont = (chunks[s] # <<>>)
  OBVIOUS
<1>4. Cuts(chunks[s], rest[s], text[s].len) /\ Marked(chunks[s])
  BY DEF Sliced
<1> HIDE DEF c
<1>5. Cuts(Append(chunks[s], c), c.to, text[s].len)
  BY <1>1, <1>2, <1>3, <1>4, AddSlice
<1>6. Marked(Append(chunks[s], c))
  BY <1>1, <1>2, <1>3, <1>4, AddMark
<1>7. Cuts(chunks[s], rest[s], text[s].len)' /\ Marked(chunks[s])'
  BY <1>1, <1>3, <1>5, <1>6 DEF Cuts, Marked
<1>8. ASSUME NEW m \in Senders \ {s}
      PROVE  Cuts(chunks[m], rest[m], text[m].len)' /\ Marked(chunks[m])'
  BY <1>1 DEF Sliced, Cuts, Marked
<1> QED
  BY <1>7, <1>8 DEF Sliced

LEMMA InvNext == TypeOK /\ Early /\ Inv /\ [Next]_vars => Inv'
<1> SUFFICES ASSUME TypeOK, Early, Inv, [Next]_vars PROVE Inv'
  OBVIOUS
\* The steps that keep the slices, or the results.
<1>k. ASSUME UNCHANGED <<chunks, rest, text>> PROVE Sliced'
  BY <1>k DEF Inv, Sliced, Cuts, Marked
<1>n. ASSUME NEW s \in Senders, pc[s] # "done", UNCHANGED <<result, fault, next>>,
             \A m \in Senders \ {s} :
               pc'[m] = pc[m] /\ chunks'[m] = chunks[m]
      PROVE  Pending' /\ FailureHasCause'
  BY <1>n DEF Inv, Pending, FailureHasCause
<1>1. CASE Connect \/ Close \/ UNCHANGED vars
  <2>1. UNCHANGED call
    BY <1>1 DEF Connect, Close, vars
  <2> QED
    BY <1>k, <2>1 DEF call, Inv, Pending, FailureHasCause
<1>2. ASSUME NEW s \in Senders, SendStarts(s) PROVE Inv'
  <2>1. PICK t \in Texts :
          /\ text' = [text EXCEPT ![s] = t]
          /\ \/ /\ t.len <= MaxLen
                /\ chunks' = [chunks EXCEPT ![s] = <<[from |-> 0, to |-> t.len, cont |-> FALSE]>>]
                /\ rest'   = [rest EXCEPT ![s] = t.len]
                /\ pc'     = [pc EXCEPT ![s] = "sending"]
             \/ /\ pc' = [pc EXCEPT ![s] = "cutting"]
                /\ UNCHANGED <<chunks, rest>>
    BY <1>2 DEF SendStarts
  <2>2. t.len \in Nat
    BY TextTypes
  <2>3. /\ text'[s] = t /\ pc[s] = "idle" /\ chunks[s] = <<>> /\ rest[s] = 0
        /\ UNCHANGED <<result, fault, next>>
    BY <1>2, <2>1 DEF TypeOK, Early, SendStarts
  <2>4. \A m \in Senders \ {s} : /\ text'[m] = text[m] /\ pc'[m] = pc[m]
                                 /\ chunks'[m] = chunks[m] /\ rest'[m] = rest[m]
    BY <2>1 DEF TypeOK
  <2>5. Cuts(chunks[s], rest[s], text[s].len)' /\ Marked(chunks[s])'
    <3>1. CASE /\ t.len <= MaxLen
               /\ chunks' = [chunks EXCEPT ![s] = <<[from |-> 0, to |-> t.len, cont |-> FALSE]>>]
               /\ rest'   = [rest EXCEPT ![s] = t.len]
      <4> DEFINE one == <<[from |-> 0, to |-> t.len, cont |-> FALSE]>>
      <4>1. Cuts(one, t.len, t.len) /\ Marked(one)
        BY <2>2, <3>1, LimitIsPositive DEF Cuts, Marked
      <4>2. chunks'[s] = one /\ rest'[s] = t.len
        BY <3>1 DEF TypeOK
      <4> HIDE DEF one
      <4> QED
        BY <2>3, <4>1, <4>2 DEF Cuts, Marked
    <3>2. CASE UNCHANGED <<chunks, rest>>
      BY <2>3, <3>2 DEF Cuts, Marked
    <3> QED
      BY <2>1, <3>1, <3>2
  <2>6. Sliced'
    BY <2>4, <2>5 DEF Inv, Sliced, Cuts, Marked
  <2> QED
    BY <1>n, <2>3, <2>4, <2>6 DEF Inv
<1>3. ASSUME NEW s \in Senders, Cut(s) PROVE Inv'
  <2>1. PICK e \in CutPoint(text[s], rest[s]) : AddChunk(s, e)
    BY <1>3 DEF Cut
  <2>2. /\ pc[s] = "cutting" /\ UNCHANGED <<pc, text, next, result, fault>>
    BY <1>3 DEF Cut
  <2>3. rest[s] \in Nat
    BY DEF TypeOK
  <2>4. e \in Nat /\ rest[s] < e /\ e - rest[s] <= MaxLen
    BY <2>3, CutPointTypes, LimitIsPositive
  <2>5. Sliced'
    BY <2>1, <2>2, <2>4, SlicedByAddChunk DEF Inv
  <2>6. \A m \in Senders \ {s} : chunks'[m] = chunks[m]
    BY <2>1, <2>4, AddChunkTypes
  <2> QED
    BY <1>n, <2>2, <2>5, <2>6 DEF Inv
<1>4. ASSUME NEW s \in Senders, CutLast(s) PROVE Inv'
  <2>1. /\ AddChunk(s, text[s].len) /\ pc[s] = "cutting" /\ text[s].len - rest[s] <= MaxLen
        /\ pc' = [pc EXCEPT ![s] = "sending"]
        /\ UNCHANGED <<text, next, result, fault>>
    BY <1>4 DEF CutLast
  <2>2. text[s].len \in Nat /\ rest[s] < text[s].len
    BY <2>1, TextTypes DEF TypeOK, Early
  <2>3. Sliced'
    BY <2>1, <2>2, SlicedByAddChunk DEF Inv
  <2>4. \A m \in Senders \ {s} : chunks'[m] = chunks[m]
    BY <2>1, <2>2, AddChunkTypes
  <2>5. \A m \in Senders \ {s} : pc'[m] = pc[m]
    BY <2>1 DEF TypeOK
  <2> QED
    BY <1>n, <2>1, <2>3, <2>4, <2>5 DEF Inv
<1>5. ASSUME NEW s \in Senders, Accepted(s) PROVE Inv'
  <2>1. /\ pc[s] = "sending" /\ next' = [next EXCEPT ![s] = @ + 1]
        /\ UNCHANGED <<text, rest, chunks, fault>>
        /\ Returns(s, "ok") \/ UNCHANGED <<pc, result>>
    BY <1>5 DEF Accepted
  <2>2. \A m \in Senders \ {s} : next'[m] = next[m]
    BY <2>1 DEF TypeOK
  <2>3. /\ \A m \in Senders \ {s} : pc'[m] = pc[m] /\ result'[m] = result[m]
        /\ result'[s] # "error" /\ (pc'[s] # "done" => result'[s] = "none")
    <3>1. CASE Returns(s, "ok")
      BY <3>1, ReturnsTypes
    <3>2. CASE UNCHANGED <<pc, result>>
      BY <2>1, <3>2 DEF Inv, Pending
    <3> QED
      BY <2>1, <3>1, <3>2
  <2>4. Pending' /\ FailureHasCause'
    BY <2>1, <2>2, <2>3 DEF Inv, Pending, FailureHasCause
  <2> QED
    BY <1>k, <2>1, <2>4 DEF Inv
<1>6. ASSUME NEW s \in Senders, Fails(s) PROVE Inv'
  <2>1. /\ pc[s] = "sending" /\ Returns(s, "error")
        /\ \/ fault' = [fault EXCEPT ![s] = TRUE]
           \/ ~Accepts(chunks[s][next[s]]) /\ UNCHANGED fault
        /\ UNCHANGED <<text, rest, chunks, next>>
    BY <1>6 DEF Fails
  <2>2. /\ pc'[s] = "done"
        /\ \A m \in Senders \ {s} : pc'[m] = pc[m] /\ result'[m] = result[m]
    BY <2>1, ReturnsTypes
  <2>3. Pending'
    BY <2>2 DEF Inv, Pending
  <2>4. \A m \in Senders \ {s} : fault'[m] = fault[m]
    BY <2>1 DEF TypeOK
  <2>5. ASSUME ~fault'[s]
        PROVE  /\ next[s] > 1
               /\ chunks[s][next[s]].to - chunks[s][next[s]].from > MaxLen - PrefixLen
    <3> DEFINE c == chunks[s][next[s]]
    <3>1. ~Fits(c)
      BY <2>1, <2>5 DEF TypeOK, Accepts
    <3>2. /\ next[s] \in Nat /\ next[s] \in DOMAIN chunks[s] /\ chunks[s] \in Seq(Slices)
      BY <2>1 DEF TypeOK
    <3>3. c \in Slices
      BY <3>2
    <3>4. c.from \in Nat /\ c.to \in Nat /\ c.cont \in BOOLEAN
      BY <3>3 DEF Slices
    <3>5. c.to - c.from <= MaxLen /\ (c.cont <=> next[s] > 1)
      BY <3>2 DEF Inv, Sliced, Cuts, Marked
    <3> HIDE DEF c
    <3>6. c.cont
      BY <3>1, <3>4, <3>5, LimitIsPositive DEF Fits
    <3>7. c.to - c.from > MaxLen - PrefixLen
      BY <3>1, <3>4, <3>6, LimitIsPositive DEF Fits
    <3> QED
      BY <3>5, <3>6, <3>7 DEF c
  <2>6. FailureHasCause'
    BY <2>1, <2>2, <2>4, <2>5 DEF Inv, FailureHasCause
  <2> QED
    BY <1>k, <2>1, <2>3, <2>6 DEF Inv
<1> QED
  BY <1>1, <1>2, <1>3, <1>4, <1>5, <1>6 DEF Next, Continue

\* Whatever its newlines, a message is cut without a gap or an overlap into
\* slices within the limit, none of them empty unless the message is.
THEOREM OutboundWellCut == Spec => []WellCut
<1>1. Spec => [](TypeOK /\ Early /\ Inv)
  BY TypeInit, TypeNext, InvInit, InvNext, PTL DEF Spec
<1>2. Inv => WellCut
  BY DEF Inv, Sliced, Cuts, WellCut
<1> QED
  BY <1>1, <1>2, PTL

\* When the platform is not at fault, the only Send that fails is one with a
\* continuation that leaves no room for the prefix.
THEOREM OutboundFailureHasCause == Spec => []FailureHasCause
<1>1. Spec => [](TypeOK /\ Early /\ Inv)
  BY TypeInit, TypeNext, InvInit, InvNext, PTL DEF Spec
<1> QED
  BY <1>1, PTL DEF Inv

------------------------------------------------------------------------------
(* The mutex.                                                              *)

Sent(s, i) == received[i].sender = s

Exclusive ==
  Locks =>
    /\ \A s \in Senders : Busy(s) => mu = {s}
    /\ mu # {} => connected
    /\ \A s \in Senders : pc[s] = "idle" => \A i \in DOMAIN received : ~Sent(s, i)
    /\ \A s \in Senders : Busy(s) =>
         \A i, j \in DOMAIN received : i < j /\ Sent(s, i) => Sent(s, j)
    /\ \A i, j, k \in DOMAIN received :
         i < j /\ j < k /\ received[i].sender = received[k].sender
           => received[j].sender = received[i].sender

LEMMA ExclusiveInit == Init => Exclusive
  BY DEF Init, Exclusive, Busy

\* A chunk of a busy Send joins its others.
LEMMA ArrivalKeepsTogether ==
  ASSUME TypeOK, Exclusive, Locks, NEW s \in Senders, pc[s] = "sending", Arrives(s)
  PROVE  /\ \A i, j, k \in DOMAIN received' :
              i < j /\ j < k /\ received'[i].sender = received'[k].sender
                => received'[j].sender = received'[i].sender
         /\ \A i, j \in DOMAIN received' : i < j /\ Sent(s, i)' => Sent(s, j)'
         /\ \A m \in Senders \ {s} :
              (\A i \in DOMAIN received : ~Sent(m, i)) => \A i \in DOMAIN received' : ~Sent(m, i)'
<1> DEFINE T == [sender : Senders, chunk : Slices]
<1> DEFINE n == Len(received)
<1>1. PICK r \in T : r.sender = s /\ received' = Append(received, r)
  BY ArrivesTypes
<1>2. received \in Seq(T)
  BY DEF TypeOK
<1> HIDE DEF T
<1>3. /\ n \in Nat /\ DOMAIN received = 1..n /\ DOMAIN received' = 1..n + 1
      /\ \A i \in 1..n : received'[i] = received[i]
      /\ received'[n + 1] = r
  BY <1>1, <1>2, AppendProperties, LenProperties
<1> HIDE DEF n
<1>4. \A i, j \in 1..n : i < j /\ received[i].sender = s => received[j].sender = s
  BY <1>3 DEF Exclusive, Busy, Sent
<1>5. ASSUME NEW i \in 1..n + 1, NEW j \in 1..n + 1, i < j, received'[i].sender = s
      PROVE  received'[j].sender = s
  <2>1. i \in 1..n
    BY <1>3, <1>5
  <2>2. CASE j \in 1..n
    BY <1>3, <1>4, <1>5, <2>1, <2>2
  <2>3. CASE j = n + 1
    BY <1>1, <1>3, <2>3
  <2> QED
    BY <1>3, <2>2, <2>3
<1>6. ASSUME NEW i \in 1..n + 1, NEW j \in 1..n + 1, NEW k \in 1..n + 1,
             i < j, j < k, received'[i].sender = received'[k].sender
      PROVE  received'[j].sender = received'[i].sender
  <2>1. i \in 1..n /\ j \in 1..n
    BY <1>3, <1>6
  <2>2. CASE k \in 1..n
    BY <1>3, <1>6, <2>1, <2>2 DEF Exclusive
  <2>3. CASE k = n + 1
    BY <1>1, <1>3, <1>5, <1>6, <2>3
  <2> QED
    BY <1>3, <2>2, <2>3
<1>7. ASSUME NEW m \in Senders \ {s}, \A i \in DOMAIN received : ~Sent(m, i),
             NEW i \in 1..n + 1
      PROVE  received'[i].sender # m
  <2>1. CASE i \in 1..n
    BY <1>3, <1>7, <2>1 DEF Sent
  <2>2. CASE i = n + 1
    BY <1>1, <1>3, <2>2
  <2> QED
    BY <1>3, <2>1, <2>2
<1> QED
  BY <1>3, <1>5, <1>6, <1>7 DEF Sent

LEMMA ExclusiveNext == TypeOK /\ Exclusive /\ [Next]_vars => Exclusive'
<1> SUFFICES ASSUME TypeOK, Exclusive, [Next]_vars, Locks' PROVE Exclusive'
  BY DEF Exclusive
<1>0. platform' = platform /\ Locks
  BY DEF Next, Continue, Connect, Close, SendStarts, Cut, CutLast, Accepted, Fails, vars, Locks
<1>1. CASE Connect \/ Close \/ UNCHANGED vars
  <2>1. UNCHANGED <<mu, pc, received>> /\ (mu # {} /\ connected => connected')
    BY <1>1 DEF Connect, Close, vars, call
  <2> QED
    BY <1>0, <2>1 DEF Exclusive, Busy, Sent
<1>2. ASSUME NEW s \in Senders, SendStarts(s) PROVE Exclusive'
  <2>1. /\ mu = {} /\ mu' = {s} /\ connected /\ UNCHANGED <<connected, received>>
        /\ pc[s] = "idle" /\ pc'[s] \in {"cutting", "sending"}
        /\ \A m \in Senders \ {s} : pc'[m] = pc[m]
    BY <1>0, <1>2 DEF TypeOK, SendStarts
  <2>2. \A m \in Senders : ~Busy(m)
    BY <1>0, <2>1 DEF Exclusive
  <2>3. \A i \in DOMAIN received : ~Sent(s, i)
    BY <1>0, <2>1 DEF Exclusive
  <2>4. \A m \in Senders : Busy(m)' => m = s
    BY <2>1, <2>2 DEF Busy
  <2>5. \A m \in Senders, i \in DOMAIN received : Sent(m, i)' <=> Sent(m, i)
    BY <2>1 DEF Sent
  <2> QED
    BY <1>0, <2>1, <2>3, <2>4, <2>5 DEF Exclusive
<1>3. ASSUME NEW s \in Senders, Cut(s) \/ CutLast(s) PROVE Exclusive'
  <2>1. /\ UNCHANGED <<connected, mu, received>>
        /\ pc[s] = "cutting" /\ pc'[s] \in {"cutting", "sending"}
        /\ \A m \in Senders \ {s} : pc'[m] = pc[m]
    BY <1>3 DEF TypeOK, Cut, CutLast
  <2> QED
    BY <1>0, <2>1 DEF Exclusive, Busy, Sent
<1>4. ASSUME NEW s \in Senders, Accepted(s) \/ Fails(s) PROVE Exclusive'
  <2>1. /\ pc[s] = "sending" /\ UNCHANGED connected
        /\ Arrives(s) \/ UNCHANGED received
        /\ Returns(s, "ok") \/ Returns(s, "error") \/ UNCHANGED <<mu, pc>>
    BY <1>4 DEF Accepted, Fails
  <2>2. /\ \A m \in Senders \ {s} : pc'[m] = pc[m]
        /\ \/ pc'[s] = "done" /\ mu' = mu \ {s}
           \/ pc'[s] = "sending" /\ mu' = mu
    BY <2>1 DEF TypeOK, Returns
  <2>3. mu = {s} /\ \A m \in Senders : Busy(m) => m = s
    BY <1>0, <2>1 DEF Exclusive, Busy
  <2>4. \A m \in Senders : Busy(m)' => m = s /\ mu' = {s}
    BY <2>2, <2>3 DEF Busy
  <2>5. /\ \A i, j, k \in DOMAIN received' :
             i < j /\ j < k /\ received'[i].sender = received'[k].sender
               => received'[j].sender = received'[i].sender
        /\ \A i, j \in DOMAIN received' : i < j /\ Sent(s, i)' => Sent(s, j)'
        /\ \A m \in Senders \ {s} :
             (\A i \in DOMAIN received : ~Sent(m, i)) => \A i \in DOMAIN received' : ~Sent(m, i)'
    <3>1. CASE Arrives(s)
      BY <1>0, <2>1, <3>1, ArrivalKeepsTogether
    <3>2. CASE UNCHANGED received
      BY <1>0, <2>1, <3>2 DEF Exclusive, Busy, Sent
    <3> QED
      BY <2>1, <3>1, <3>2
  <2>6. mu' # {} => connected'
    BY <1>0, <2>1, <2>2, <2>3 DEF Exclusive
  <2>7. \A m \in Senders : pc'[m] = "idle" => \A i \in DOMAIN received' : ~Sent(m, i)'
    BY <1>0, <2>2, <2>5 DEF Exclusive
  <2>8. \A m \in Senders : Busy(m)' =>
          \A i, j \in DOMAIN received' : i < j /\ Sent(m, i)' => Sent(m, j)'
    BY <2>4, <2>5
  <2> QED
    BY <2>4, <2>5, <2>6, <2>7, <2>8 DEF Exclusive
<1> QED
  BY <1>1, <1>2, <1>3, <1>4 DEF Next, Continue

\* On Discord and Telegram the chunks of a message stay together, and no Close
\* comes between them, for any number of concurrent Sends.
THEOREM OutboundChunksTogether == Spec => []ChunksTogether
<1>1. Spec => [](TypeOK /\ Early /\ Exclusive)
  BY TypeInit, TypeNext, ExclusiveInit, ExclusiveNext, PTL DEF Spec
<1>2. TypeOK /\ Exclusive => ChunksTogether
  <2> SUFFICES ASSUME TypeOK, Exclusive, Locks PROVE ChunksTogether
    BY DEF ChunksTogether
  <2>1. ~connected => \A s \in Senders : pc[s] \notin {"cutting", "sending"}
    BY DEF Exclusive, Busy
  <2> QED
    BY <2>1 DEF Exclusive, ChunksTogether
<1> QED
  BY <1>1, <1>2, PTL

------------------------------------------------------------------------------
(* Order.  While a Send runs, the last of its chunks that the platform has *)
(* is the one before the chunk to send; the slices being well cut, the     *)
(* next arrival goes on where it ended.                                    *)

Follows(s, i) ==
  LET c      == received[i].chunk
      before == {k \in Places(s) : k < i}
  IN  /\ before = {} => c.from = 0 /\ ~c.cont
      /\ before # {} => /\ c.cont
                        /\ \E j \in before : Latest(before, j) /\ c.from = received[j].chunk.to

Whole(s) == \E i \in Places(s) : Latest(Places(s), i) /\ received[i].chunk.to = text[s].len

Progress(s) ==
  /\ pc[s] \in {"idle", "cutting"} => Places(s) = {}
  /\ pc[s] = "sending" =>
       /\ rest[s] = text[s].len
       /\ next[s] = 1 => Places(s) = {}
       /\ next[s] > 1 => \E i \in Places(s) : Latest(Places(s), i) /\ received[i].chunk = chunks[s][next[s] - 1]
  /\ \A i \in Places(s) : Follows(s, i)
  /\ result[s] = "ok" => pc[s] = "done" /\ Whole(s)

Ordered == \A s \in Senders : Progress(s)

LEMMA OrderedInit == Init => Ordered
<1> SUFFICES ASSUME Init, NEW s \in Senders PROVE Progress(s)
  BY DEF Ordered
<1>1. received = <<>> /\ pc[s] = "idle" /\ result[s] = "none"
  BY DEF Init
<1>2. Places(s) = {}
  BY <1>1 DEF Places
<1> QED
  BY <1>1, <1>2 DEF Progress

\* What the platform has of a Send does not change with what happens to
\* others.
LEMMA ProgressKept ==
  ASSUME NEW s \in Senders, Progress(s), Places(s)' = Places(s),
         \A i \in Places(s) : received'[i] = received[i],
         pc'[s] = pc[s], rest'[s] = rest[s], next'[s] = next[s], chunks'[s] = chunks[s],
         text'[s] = text[s], result'[s] = result[s]
  PROVE  Progress(s)'
<1>1. \A i \in Places(s) : Follows(s, i) => Follows(s, i)'
  BY DEF Follows
<1>2. Whole(s) => Whole(s)'
  BY DEF Whole
<1> QED
  BY <1>1, <1>2 DEF Progress

\* Where an arrival goes.
LEMMA ArrivalPlaces ==
  ASSUME TypeOK, NEW s \in Senders, pc[s] = "sending", Arrives(s)
  PROVE  LET n == Len(received) + 1 IN
         /\ Places(s)' = Places(s) \cup {n}
         /\ \A m \in Senders \ {s} : Places(m)' = Places(m)
         /\ \A m \in Senders : \A i \in Places(m) : i \in Nat /\ i < n /\ received'[i] = received[i]
         /\ received'[n].chunk = chunks[s][next[s]]
<1> DEFINE T == [sender : Senders, chunk : Slices]
<1>1. PICK r \in T : r.sender = s /\ r.chunk = chunks[s][next[s]] /\ received' = Append(received, r)
  BY ArrivesTypes
<1>2. received \in Seq(T)
  BY DEF TypeOK
<1> HIDE DEF T
<1>3. /\ Len(received) \in Nat /\ DOMAIN received = 1..Len(received)
      /\ DOMAIN received' = 1..Len(received) + 1
      /\ \A i \in 1..Len(received) : received'[i] = received[i]
      /\ received'[Len(received) + 1] = r
  BY <1>1, <1>2, AppendProperties, LenProperties
<1> DEFINE n == Len(received)
<1> HIDE DEF n
<1>4. Places(s)' = Places(s) \cup {n + 1}
  <2>1. ASSUME NEW i \in Places(s)' PROVE i \in Places(s) \cup {n + 1}
    BY <1>3, <2>1 DEF Places, n
  <2>2. ASSUME NEW i \in Places(s) \cup {n + 1} PROVE i \in Places(s)'
    BY <1>1, <1>3, <2>2 DEF Places, n
  <2> QED
    BY <2>1, <2>2
<1>5. ASSUME NEW m \in Senders \ {s} PROVE Places(m)' = Places(m)
  <2>1. ASSUME NEW i \in Places(m)' PROVE i \in Places(m)
    BY <1>1, <1>3, <2>1 DEF Places
  <2>2. ASSUME NEW i \in Places(m) PROVE i \in Places(m)'
    BY <1>3, <2>2 DEF Places
  <2> QED
    BY <2>1, <2>2
<1>6. \A m \in Senders : \A i \in Places(m) : i \in Nat /\ i < n + 1 /\ received'[i] = received[i]
  BY <1>3 DEF Places, n
<1> QED
  BY <1>1, <1>3, <1>4, <1>5, <1>6 DEF n

\* A chunk that arrives follows the one before it, which it leaves in place.
LEMMA ArrivalFollows ==
  ASSUME TypeOK, Inv, Ordered, NEW s \in Senders, pc[s] = "sending", Arrives(s)
  PROVE  /\ \A i \in Places(s)' : Follows(s, i)'
         /\ \E i \in Places(s)' : Latest(Places(s)', i) /\ received'[i].chunk = chunks[s][next[s]]
<1>1. PICK n \in Nat :
        /\ Places(s)' = Places(s) \cup {n}
        /\ \A i \in Places(s) : i \in Nat /\ i < n /\ received'[i] = received[i]
        /\ received'[n].chunk = chunks[s][next[s]]
  <2>1. Len(received) + 1 \in Nat
    BY LenProperties DEF TypeOK
  <2> QED
    BY <2>1, ArrivalPlaces
<1>2. Latest(Places(s)', n)
  BY <1>1 DEF Latest
<1>3. ASSUME NEW i \in Places(s) PROVE Follows(s, i)'
  <2>1. {k \in Places(s) : k < i}' = {k \in Places(s) : k < i}
    BY <1>1
  <2>2. Follows(s, i)
    BY DEF Ordered, Progress
  <2> QED
    BY <1>1, <2>1, <2>2 DEF Follows
<1>4. Follows(s, n)'
  <2>1. {k \in Places(s) : k < n}' = Places(s)
    BY <1>1
  <2>2. /\ next[s] \in DOMAIN chunks[s] /\ next[s] \in Nat
        /\ chunks[s] \in Seq(Slices) /\ DOMAIN chunks[s] = 1..Len(chunks[s])
    BY LenProperties DEF TypeOK
  <2>3. /\ chunks[s][next[s]].from = IF next[s] = 1 THEN 0 ELSE chunks[s][next[s] - 1].to
        /\ chunks[s][next[s]].cont <=> next[s] > 1
    BY <2>2 DEF Inv, Sliced, Cuts, Marked
  <2>4. CASE next[s] = 1
    <3>1. Places(s) = {}
      BY <2>4 DEF Ordered, Progress
    <3> QED
      BY <1>1, <2>1, <2>3, <2>4, <3>1 DEF Follows
  <2>5. CASE next[s] # 1
    <3>0. next[s] > 1
      BY <2>2, <2>5
    <3>1. PICK j \in Places(s) : Latest(Places(s), j) /\ received[j].chunk = chunks[s][next[s] - 1]
      BY <3>0 DEF Ordered, Progress
    <3>2. received'[j].chunk = chunks[s][next[s] - 1]
      BY <1>1, <3>1
    <3> QED
      BY <1>1, <2>1, <2>3, <2>5, <3>0, <3>1, <3>2 DEF Follows
  <2> QED
    BY <2>4, <2>5
<1> QED
  BY <1>1, <1>2, <1>3, <1>4

LEMMA OrderedNext == TypeOK /\ Early /\ Inv /\ Ordered /\ [Next]_vars => Ordered'
<1> SUFFICES ASSUME TypeOK, Early, Inv, Ordered, [Next]_vars PROVE Ordered'
  OBVIOUS
<1>1. CASE Connect \/ Close \/ UNCHANGED vars
  BY <1>1, ProgressKept DEF Ordered, Places, Connect, Close, vars, call
<1>2. ASSUME NEW s \in Senders, SendStarts(s) PROVE Ordered'
  <2>1. PICK t \in Texts :
          /\ text' = [text EXCEPT ![s] = t]
          /\ \/ /\ chunks' = [chunks EXCEPT ![s] = <<[from |-> 0, to |-> t.len, cont |-> FALSE]>>]
                /\ rest'   = [rest EXCEPT ![s] = t.len]
                /\ pc'     = [pc EXCEPT ![s] = "sending"]
             \/ /\ pc' = [pc EXCEPT ![s] = "cutting"]
                /\ UNCHANGED <<chunks, rest>>
    BY <1>2 DEF SendStarts
  <2>2. pc[s] = "idle" /\ UNCHANGED <<next, result, received>>
    BY <1>2 DEF SendStarts
  <2>3. Places(s) = {} /\ next[s] = 1 /\ result[s] = "none"
    BY <2>2 DEF Ordered, Progress, Early, Inv, Pending
  <2>4. \A m \in Senders : Places(m)' = Places(m)
    BY <2>2 DEF Places
  <2>5. Progress(s)'
    <3>1. text'[s] = t /\ ((pc'[s] = "sending" /\ rest'[s] = t.len) \/ pc'[s] = "cutting")
      BY <2>1 DEF TypeOK
    <3> QED
      BY <2>2, <2>3, <2>4, <3>1 DEF Progress
  <2>6. ASSUME NEW m \in Senders \ {s} PROVE Progress(m)'
    <3>1. /\ text'[m] = text[m] /\ pc'[m] = pc[m] /\ chunks'[m] = chunks[m] /\ rest'[m] = rest[m]
      BY <2>1 DEF TypeOK
    <3> QED
      BY <2>2, <2>4, <3>1, ProgressKept DEF Ordered
  <2> QED
    BY <2>5, <2>6 DEF Ordered
<1>3. ASSUME NEW s \in Senders, Cut(s) \/ CutLast(s) PROVE Ordered'
  <2>1. /\ pc[s] = "cutting" /\ UNCHANGED <<text, next, result, received>>
        /\ \/ pc' = pc
           \/ pc' = [pc EXCEPT ![s] = "sending"] /\ AddChunk(s, text[s].len)
    BY <1>3 DEF Cut, CutLast
  <2>2. Places(s) = {} /\ next[s] = 1 /\ result[s] = "none"
    BY <2>1 DEF Ordered, Progress, Early, Inv, Pending
  <2>3. \A m \in Senders : Places(m)' = Places(m)
    BY <2>1 DEF Places
  <2>4. Progress(s)'
    <3>1. \/ pc'[s] = "cutting"
          \/ pc'[s] = "sending" /\ rest'[s] = text'[s].len
      <4>1. AddChunk(s, text[s].len) => rest'[s] = text[s].len
        BY AddChunkTypes, TextTypes DEF TypeOK
      <4> QED
        BY <2>1, <4>1 DEF TypeOK
    <3> QED
      BY <2>1, <2>2, <2>3, <3>1 DEF Progress
  <2>5. ASSUME NEW m \in Senders \ {s} PROVE Progress(m)'
    <3>1. chunks'[m] = chunks[m] /\ rest'[m] = rest[m]
      BY <1>3 DEF Cut, CutLast, AddChunk, TypeOK
    <3>2. pc'[m] = pc[m]
      BY <2>1 DEF TypeOK
    <3> QED
      BY <2>1, <2>3, <3>1, <3>2, ProgressKept DEF Ordered
  <2> QED
    BY <2>4, <2>5 DEF Ordered
<1>4. ASSUME NEW s \in Senders, Accepted(s) \/ Fails(s) PROVE Ordered'
  <2>1. /\ pc[s] = "sending" /\ UNCHANGED <<text, rest, chunks>>
        /\ Arrives(s) \/ UNCHANGED received
        /\ Returns(s, "error") \/ Arrives(s)
        /\ \A m \in Senders \ {s} : pc'[m] = pc[m] /\ result'[m] = result[m] /\ next'[m] = next[m]
    BY <1>4 DEF Accepted, Fails, Returns, TypeOK
  <2>2. ASSUME NEW m \in Senders \ {s} PROVE Progress(m)'
    <3>1. Places(m)' = Places(m) /\ \A i \in Places(m) : received'[i] = received[i]
      BY <2>1, ArrivalPlaces DEF Places
    <3> QED
      BY <2>1, <3>1, ProgressKept DEF Ordered
  <2>3. \A i \in Places(s)' : Follows(s, i)'
    <3>1. CASE Arrives(s)
      BY <2>1, <3>1, ArrivalFollows
    <3>2. CASE UNCHANGED received
      <4>1. Places(s)' = Places(s) /\ \A i \in Places(s) : Follows(s, i)' <=> Follows(s, i)
        BY <3>2 DEF Places, Follows
      <4> QED
        BY <4>1 DEF Ordered, Progress
    <3> QED
      BY <2>1, <3>1, <3>2
  <2>4. CASE Fails(s)
    <3>1. pc'[s] = "done" /\ result'[s] = "error"
      BY <2>4 DEF Fails, Returns, TypeOK
    <3>2. Progress(s)'
      BY <2>3, <3>1 DEF Progress
    <3> QED
      BY <2>2, <3>2 DEF Ordered
  <2>5. CASE Accepted(s)
    <3>1. PICK i \in Places(s)' : Latest(Places(s)', i) /\ received'[i].chunk = chunks[s][next[s]]
      BY <2>1, <2>5, ArrivalFollows DEF Accepted
    <3>2. /\ next'[s] = next[s] + 1 /\ next[s] \in Nat /\ next[s] > 0
      BY <2>1, <2>5, LenProperties DEF Accepted, TypeOK
    <3>3. CASE next[s] = Len(chunks[s]) /\ Returns(s, "ok")
      <4>1. pc'[s] = "done"
        BY <3>3 DEF Returns, TypeOK
      <4>2. chunks[s][next[s]].to = text[s].len
        <5>1. rest[s] = text[s].len
          BY <2>1 DEF Ordered, Progress
        <5> QED
          BY <2>1, <3>3, <5>1 DEF TypeOK, Inv, Sliced, Cuts
      <4>3. Whole(s)'
        BY <2>1, <3>1, <4>2 DEF Whole
      <4>4. Progress(s)'
        BY <2>3, <4>1, <4>3 DEF Progress
      <4> QED
        BY <2>2, <4>4 DEF Ordered
    <3>4. CASE UNCHANGED <<pc, result>>
      <4>1. pc'[s] = "sending" /\ result'[s] = "none" /\ rest'[s] = text'[s].len
        BY <2>1, <3>4 DEF Ordered, Progress, Inv, Pending
      <4>2. next'[s] > 1 /\ next'[s] - 1 = next[s]
        BY <3>2
      <4>3. received'[i].chunk = chunks'[s][next'[s] - 1]
        BY <2>1, <3>1, <4>2
      <4>4. Progress(s)'
        BY <2>3, <3>1, <4>1, <4>2, <4>3 DEF Progress
      <4> QED
        BY <2>2, <4>4 DEF Ordered
    <3> QED
      BY <2>5, <3>3, <3>4 DEF Accepted
  <2> QED
    BY <1>4, <2>4, <2>5
<1> QED
  BY <1>1, <1>2, <1>3, <1>4 DEF Next, Continue

\* Whatever fails and whatever the other Sends do, the platform has of each
\* message a beginning, in order, without a gap and nothing twice, and all of
\* it when Send returned without an error.
THEOREM OutboundDeliveredInOrder == Spec => []DeliveredInOrder
<1>1. Spec => [](TypeOK /\ Early /\ Inv /\ Ordered)
  BY TypeInit, TypeNext, InvInit, InvNext, OrderedInit, OrderedNext, PTL DEF Spec
<1>2. Ordered => DeliveredInOrder
  BY DEF Ordered, Progress, Follows, Whole, DeliveredInOrder
<1> QED
  BY <1>1, <1>2, PTL
==============================================================================
