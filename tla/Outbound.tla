------------------------------- MODULE Outbound -------------------------------
(***************************************************************************)
(* Send of the Discord, Telegram and iMessage adapters, with the splitting *)
(* of long messages in messaging/format/format.go.                         *)
(*                                                                         *)
(* A text is its length in bytes and the positions of its newlines, 1 for  *)
(* the first byte.  A chunk is a slice of it: the bytes after "from" up to *)
(* "to"; "cont" says that the continuation prefix stands before it.  The   *)
(* program uses one platform, with several concurrent Sends.               *)
(*                                                                         *)
(* Left out: the targets and the ids of sent messages; the check of the    *)
(* target.  The limits that differ by platform are one MaxLen: each        *)
(* adapter's own threshold equals its platform's entry in the map.         *)
(***************************************************************************)
EXTENDS Naturals, Sequences

CONSTANTS Senders,      \* calls of Send
          Texts,        \* what they may be given
          MaxLen,       \* MaxMessageLen
          PrefixLen     \* the length of "(continued) "

ASSUME OutboundAssumption ==
  /\ MaxLen \in Nat \ {0} /\ PrefixLen \in Nat
  /\ Texts \subseteq [len : Nat, newlines : SUBSET Nat]

VARIABLES
  platform,
  connected,    \* ta.api or d.session is not nil
  mu,           \* the senders that hold the adapter's mutex
  pc,           \* where each Send is
  text,         \* its message
  rest,         \* splitMessage has cut the bytes up to here
  chunks,       \* the slices it has cut
  next,         \* the index of the chunk to send
  result,       \* what Send returned
  fault,        \* the platform failed it
  received      \* what the platform accepted, in order

call == <<pc, text, rest, chunks, next, result, fault>>
vars == <<platform, connected, mu, call, received>>

\* Send keeps the mutex to its end; iMessage's takes it for a moment only.
Locks == platform \in {"discord", "telegram"}

NoText == [len |-> 0, newlines |-> {}]
Slices == [from : Nat, to : Nat, cont : BOOLEAN]

TypeOK ==
  /\ platform \in {"discord", "telegram", "imessage"}
  /\ connected \in BOOLEAN
  /\ mu \subseteq Senders
  /\ pc \in [Senders -> {"idle", "cutting", "sending", "done"}]
  /\ text \in [Senders -> Texts \cup {NoText}]
  /\ rest \in [Senders -> Nat] /\ next \in [Senders -> Nat]
  /\ chunks \in [Senders -> Seq(Slices)]
  /\ result \in [Senders -> {"none", "ok", "error"}]
  /\ fault \in [Senders -> BOOLEAN]
  /\ received \in Seq([sender : Senders, chunk : Slices])
  /\ \A s \in Senders :
       /\ rest[s] <= text[s].len
       /\ pc[s] = "sending" => next[s] \in DOMAIN chunks[s]

------------------------------------------------------------------------------
Init ==
  /\ platform \in {"discord", "telegram", "imessage"}
  /\ connected = FALSE /\ mu = {} /\ received = <<>>
  /\ pc     = [s \in Senders |-> "idle"]
  /\ text   = [s \in Senders |-> NoText]
  /\ rest   = [s \in Senders |-> 0]
  /\ chunks = [s \in Senders |-> <<>>]
  /\ next   = [s \in Senders |-> 1]
  /\ result = [s \in Senders |-> "none"]
  /\ fault  = [s \in Senders |-> FALSE]

\* Both hold the mutex from end to end.
Connect ==
  /\ mu = {} /\ ~connected
  /\ connected' = TRUE
  /\ UNCHANGED <<platform, mu, call, received>>

Close ==
  /\ mu = {} /\ connected
  /\ connected' = FALSE
  /\ UNCHANGED <<platform, mu, call, received>>

------------------------------------------------------------------------------
(* Send.                                                                   *)

\* A message that is not too long goes out as it is.  Discord and Telegram
\* refuse when not connected; iMessage's sender is always there.
SendStarts(s) ==
  /\ pc[s] = "idle" /\ mu = {} /\ (Locks => connected)
  /\ mu' = IF Locks THEN {s} ELSE {}
  /\ \E t \in Texts :
       /\ text' = [text EXCEPT ![s] = t]
       /\ \/ /\ t.len <= MaxLen
             /\ chunks' = [chunks EXCEPT ![s] = <<[from |-> 0, to |-> t.len, cont |-> FALSE]>>]
             /\ rest'   = [rest EXCEPT ![s] = t.len]
             /\ pc'     = [pc EXCEPT ![s] = "sending"]
          \/ /\ t.len > MaxLen
             /\ pc' = [pc EXCEPT ![s] = "cutting"]
             /\ UNCHANGED <<chunks, rest>>
  /\ UNCHANGED <<platform, connected, next, result, fault, received>>

\* The newlines at which the slice after start may be cut: not its first
\* byte.
Breaks(t, start) == {p \in t.newlines : start + 1 < p /\ p <= start + MaxLen}

\* Mutated: the search for a newline looks one byte too far.
CutOneFurther(t, start) ==
  {e \in start + 1..start + MaxLen + 1 :
     \/ e \in t.newlines /\ \A p \in t.newlines : p <= start + MaxLen + 1 => p <= e
     \/ e = start + MaxLen}

\* After the last of them, or else after MaxLen bytes.
CutPoint(t, start) ==
  {e \in start + 1..start + MaxLen :
     \/ e \in Breaks(t, start) /\ \A p \in Breaks(t, start) : p <= e
     \/ Breaks(t, start) = {} /\ e = start + MaxLen}

\* Mutated: the first slice gets the prefix too.
AddPrefixed(s, end) ==
  /\ chunks' = [chunks EXCEPT ![s] =
                  Append(@, [from |-> rest[s], to |-> end, cont |-> TRUE])]
  /\ rest' = [rest EXCEPT ![s] = end]

AddChunk(s, end) ==
  /\ chunks' = [chunks EXCEPT ![s] =
                  Append(@, [from |-> rest[s], to |-> end, cont |-> @ # <<>>])]
  /\ rest' = [rest EXCEPT ![s] = end]

\* An iteration of splitMessage's loop.
Cut(s) ==
  /\ pc[s] = "cutting" /\ text[s].len - rest[s] > MaxLen
  /\ \E e \in CutPoint(text[s], rest[s]) : AddChunk(s, e)
  /\ UNCHANGED <<platform, connected, mu, pc, text, next, result, fault, received>>

\* Mutated: the last slice is taken as long as the others.
CutLastFull(s) ==
  /\ pc[s] = "cutting" /\ text[s].len - rest[s] <= MaxLen
  /\ AddChunk(s, rest[s] + MaxLen)
  /\ pc' = [pc EXCEPT ![s] = "sending"]
  /\ UNCHANGED <<platform, connected, mu, text, next, result, fault, received>>

CutLast(s) ==
  /\ pc[s] = "cutting" /\ text[s].len - rest[s] <= MaxLen
  /\ AddChunk(s, text[s].len)
  /\ pc' = [pc EXCEPT ![s] = "sending"]
  /\ UNCHANGED <<platform, connected, mu, text, next, result, fault, received>>

Returns(s, r) ==
  /\ pc'     = [pc EXCEPT ![s] = "done"]
  /\ result' = [result EXCEPT ![s] = r]
  /\ mu'     = mu \ {s}

\* Discord and Telegram refuse more than the limit that the adapters name;
\* AppleScript's limit is on the whole command and is not enforced here.
Fits(c) == c.to - c.from + (IF c.cont THEN PrefixLen ELSE 0) <= MaxLen

Accepts(c) == Locks => Fits(c)

Arrives(s) ==
  /\ Accepts(chunks[s][next[s]])
  /\ received' = Append(received, [sender |-> s, chunk |-> chunks[s][next[s]]])

\* Mutated: the mutex is released between two chunks.
AcceptedUnlocked(s) ==
  /\ pc[s] = "sending" /\ (Locks => mu \subseteq {s})
  /\ Arrives(s)
  /\ next' = [next EXCEPT ![s] = @ + 1]
  /\ \/ next[s] = Len(chunks[s]) /\ Returns(s, "ok")
     \/ next[s] < Len(chunks[s]) /\ mu' = mu \ {s} /\ UNCHANGED <<pc, result>>
  /\ UNCHANGED <<platform, connected, text, rest, chunks, fault>>

Accepted(s) ==
  /\ pc[s] = "sending"
  /\ Arrives(s)
  /\ next' = [next EXCEPT ![s] = @ + 1]
  /\ \/ next[s] = Len(chunks[s]) /\ Returns(s, "ok")
     \/ next[s] < Len(chunks[s]) /\ UNCHANGED <<mu, pc, result>>
  /\ UNCHANGED <<platform, connected, text, rest, chunks, fault>>

\* Mutated: a chunk that is not sent is left out.
FailsSkipsChunk(s) ==
  /\ pc[s] = "sending"
  /\ fault' = [fault EXCEPT ![s] = TRUE]
  /\ next' = [next EXCEPT ![s] = @ + 1]
  /\ \/ next[s] = Len(chunks[s]) /\ Returns(s, "error")
     \/ next[s] < Len(chunks[s]) /\ UNCHANGED <<mu, pc, result>>
  /\ UNCHANGED <<platform, connected, text, rest, chunks, received>>

\* Mutated: a chunk that is not sent is tried again.
FailsTriesAgain(s) ==
  /\ pc[s] = "sending"
  /\ fault' = [fault EXCEPT ![s] = TRUE]
  /\ UNCHANGED <<platform, connected, mu, pc, text, rest, chunks, next, result, received>>

\* The first error ends the Send; the chunks before it stay.  A chunk whose
\* answer was lost may have arrived.
Fails(s) ==
  /\ pc[s] = "sending"
  /\ \/ /\ fault' = [fault EXCEPT ![s] = TRUE]
        /\ Arrives(s) \/ UNCHANGED received
     \/ /\ ~Accepts(chunks[s][next[s]])
        /\ UNCHANGED <<fault, received>>
  /\ Returns(s, "error")
  /\ UNCHANGED <<platform, connected, text, rest, chunks, next>>

------------------------------------------------------------------------------
Continue(s) == Cut(s) \/ CutLast(s) \/ Accepted(s) \/ Fails(s)

Next == Connect \/ Close \/ \E s \in Senders : SendStarts(s) \/ Continue(s)

Spec == Init /\ [][Next]_vars

\* A Send that was called runs on; the platform answers.
FairSpec == Spec /\ \A s \in Senders : WF_vars(Continue(s))

------------------------------------------------------------------------------
(* Properties.                                                             *)

\* The slices are a partition of the first rest[s] bytes: they follow each
\* other, none is empty unless the message is, and none is longer than the
\* limit.  What is sent is longer by at most the prefix.
WellCut ==
  \A s \in Senders : \A i \in DOMAIN chunks[s] :
    LET c == chunks[s][i] IN
    /\ c.from = IF i = 1 THEN 0 ELSE chunks[s][i - 1].to
    /\ c.from < c.to \/ text[s].len = 0
    /\ c.to - c.from <= MaxLen
    /\ i = Len(chunks[s]) => c.to = rest[s]

\* The places of s's chunks among those the platform has accepted.
Places(s) == {i \in DOMAIN received : received[i].sender = s}

Latest(places, i) == i \in places /\ \A k \in places : k <= i

\* The platform has a beginning of each message, in order, without a gap
\* and nothing twice, and the whole of it when Send succeeded.
DeliveredInOrder ==
  \A s \in Senders :
    /\ \A i \in Places(s) :
         LET c      == received[i].chunk
             before == {k \in Places(s) : k < i}
         IN  /\ before = {} => c.from = 0 /\ ~c.cont
             /\ before # {} => /\ c.cont
                               /\ \E j \in before : Latest(before, j) /\ c.from = received[j].chunk.to
    /\ result[s] = "ok" =>
         \E i \in Places(s) : Latest(Places(s), i) /\ received[i].chunk.to = text[s].len

\* Discord and Telegram never see a chunk of another message inside a
\* message, nor a Close.
ChunksTogether ==
  Locks =>
    /\ \A i, j, k \in DOMAIN received :
         i < j /\ j < k /\ received[i].sender = received[k].sender
           => received[j].sender = received[i].sender
    /\ ~connected => \A s \in Senders : pc[s] \notin {"cutting", "sending"}

\* Send fails only by the platform's fault, or at a continuation whose slice
\* leaves no room for the prefix.
FailureHasCause ==
  \A s \in Senders :
    result[s] = "error" /\ ~fault[s] =>
      /\ next[s] > 1
      /\ chunks[s][next[s]].to - chunks[s][next[s]].from > MaxLen - PrefixLen

\* A Send that has the mutex, or needs none, returns.
SendsReturn ==
  \A s \in Senders : pc[s] \in {"cutting", "sending"} ~> pc[s] = "done"
==============================================================================
