------------------------ MODULE MessagingAdapterProofs -----------------------
(***************************************************************************)
(* Proofs about the adapters behind the interface, for any listeners,      *)
(* messages and capacities.                                                *)
(*                                                                         *)
(* That Telegram loses nothing it confirmed is not inductive: the update   *)
(* that a pump has handed over last is confirmed only by its next request, *)
(* and must be known to be delivered or on its way before that             *)
(* (TelegramSafe).                                                         *)
(***************************************************************************)
EXTENDS MessagingAdapter, EmailPollerProofs, SequenceTheorems

TelegramWanted == Wanted \cap (1..MaxUpdates)

LEMMA BoundsTypes ==
  /\ Cap \in Nat \ {0} /\ PumpCap \in Nat \ {0}
  /\ MaxUpdates \in Nat /\ MaxBots \in Nat /\ MaxMessages \in Nat /\ MaxSessions \in Nat
  BY BoundsAssumption, AdapterBoundsAssumption

------------------------------------------------------------------------------
(* The email adapter.                                                      *)

LEMMA EmailStep == NextAdapter => [Next]_vars
  BY DEF NextAdapter

LEMMA EmailPart == AdapterSpec => Spec
<1>1. [NextAdapter]_<<platform, vars, telegramVars, discordVars>> => [Next]_vars
  BY EmailStep
<1> QED
  BY <1>1, PTL DEF AdapterSpec, InitAdapter, Spec

\* The email adapter behind the interface implements MessageFeed.
THEOREM AdapterImplementsFeed == AdapterSpec => ImplementsFeed
  BY EmailPart, EmailImplementsFeed, PTL

\* The email adapter behind the interface repeats a message only for a cause.
THEOREM AdapterRepeatsHaveCause == AdapterSpec => []RepeatsHaveCause
  BY EmailPart, EmailRepeatsHaveCause, PTL

------------------------------------------------------------------------------
(* The Discord adapter.                                                    *)

DiscordInv ==
  /\ discordClosed => sessions > 0 /\ (sessions > 1 \/ session = 0)
  /\ Discord!PanicHasCause

LEMMA DiscordInit == Discord!Init => Discord!TypeOK /\ DiscordInv
<1>1. Discord!Init => Discord!TypeOK
  <2> SUFFICES ASSUME Discord!Init PROVE Discord!TypeOK
    OBVIOUS
  <2>1. /\ sessions \in 0..MaxSessions /\ session \in 0..sessions /\ discordQueued \in 0..Cap
        /\ opened \subseteq 1..sessions
    BY BoundsTypes DEF Discord!Init
  <2>2. discordClosed \in BOOLEAN /\ discordPanicked \in BOOLEAN
    BY Zenon DEF Discord!Init
  <2>3. handler \in [Discord!Messages -> {"none", "sending", "sent", "dropped"}]
    BY DEF Discord!Init
  <2> QED
    BY <2>1, <2>2, <2>3, Zenon DEF Discord!TypeOK
<1>2. Discord!Init => DiscordInv
  BY DEF Discord!Init, DiscordInv, Discord!PanicHasCause
<1> QED
  BY <1>1, <1>2

LEMMA DiscordNext ==
  ASSUME Discord!TypeOK, DiscordInv, Discord!Next \/ UNCHANGED discordVars
  PROVE  Discord!TypeOK' /\ DiscordInv'
<1> USE BoundsTypes
<1>1. CASE UNCHANGED discordVars \/ UNCHANGED Discord!vars
  <2>1. UNCHANGED <<session, discordClosed, sessions, opened, discordPanicked>>
        /\ UNCHANGED <<discordQueued, handler>>
    BY <1>1 DEF discordVars, Discord!vars, Discord!adapter
  <2> QED
    BY <2>1 DEF Discord!TypeOK, DiscordInv, Discord!PanicHasCause
<1>2. CASE Discord!Take
  BY <1>2 DEF Discord!TypeOK, DiscordInv, Discord!PanicHasCause, Discord!Take,
              Discord!adapter
<1>3. CASE Discord!ConnectOk \/ Discord!OpenFails
  <2>1. /\ session = 0 /\ sessions < MaxSessions /\ sessions' = sessions + 1
        /\ session' = sessions' /\ UNCHANGED <<discordClosed, discordQueued, handler, discordPanicked>>
        /\ opened' \in {opened, opened \cup {sessions'}}
    BY <1>3 DEF Discord!ConnectOk, Discord!OpenFails
  <2>2. sessions \in Nat /\ sessions' \in 0..MaxSessions /\ sessions' \in 1..sessions'
    BY <2>1 DEF Discord!TypeOK
  <2>3. opened' \subseteq 1..sessions'
    <3>1. 1..sessions \subseteq 1..sessions'
      BY <2>1, <2>2
    <3>2. opened \subseteq 1..sessions
      BY Zenon DEF Discord!TypeOK
    <3> QED
      BY <2>1, <2>2, <3>1, <3>2, Zenon
  <2>4. Discord!TypeOK'
    <3>1. session' \in 0..sessions'
      BY <2>1, <2>2
    <3>2. /\ discordClosed' \in BOOLEAN /\ discordPanicked' \in BOOLEAN /\ discordQueued' \in 0..Cap
          /\ handler' \in [Discord!Messages -> {"none", "sending", "sent", "dropped"}]
      BY <2>1, Zenon DEF Discord!TypeOK
    <3> QED
      BY <2>1, <2>2, <2>3, <3>1, <3>2, Zenon DEF Discord!TypeOK
  <2>5. DiscordInv'
    BY <2>1, <2>2 DEF DiscordInv, Discord!PanicHasCause
  <2> QED
    BY <2>4, <2>5
<1>4. CASE Discord!Close
  <2>1. /\ session # 0 /\ discordPanicked' = discordClosed /\ discordClosed' = TRUE
        /\ \/ discordClosed /\ UNCHANGED <<session, opened>>
           \/ ~discordClosed /\ session' = 0 /\ opened' = opened \ {session}
        /\ UNCHANGED <<discordQueued, sessions, handler>>
    BY <1>4 DEF Discord!Close
  <2>2. Discord!TypeOK'
    <3>1. session' \in 0..sessions' /\ opened' \subseteq 1..sessions'
      <4>1. /\ session' = session \/ session' = 0
            /\ opened' \subseteq opened /\ sessions' = sessions
        BY <2>1, Zenon
      <4>2. sessions \in Nat /\ session \in 0..sessions /\ opened \subseteq 1..sessions
        BY DEF Discord!TypeOK
      <4> QED
        BY <4>1, <4>2
    <3>2. discordPanicked' \in BOOLEAN /\ discordClosed' \in BOOLEAN
      BY <2>1, Zenon DEF Discord!TypeOK
    <3> QED
      BY <2>1, <3>1, <3>2, Zenon DEF Discord!TypeOK
  <2>3. sessions > 0
    BY <2>1 DEF Discord!TypeOK
  <2>4. DiscordInv'
    BY <2>1, <2>3 DEF DiscordInv, Discord!PanicHasCause
  <2> QED
    BY <2>2, <2>4
<1>5. ASSUME NEW m \in Discord!Messages, Discord!MessageCreate(m) \/ Discord!HandlerEnds(m)
      PROVE  Discord!TypeOK' /\ DiscordInv'
  <2>1. UNCHANGED <<session, discordClosed, sessions, opened, discordPanicked>>
    BY <1>5 DEF Discord!MessageCreate, Discord!HandlerEnds, Discord!HandlerSends,
                Discord!HandlerQuits, Discord!adapter
  <2>2. \/ discordQueued' = discordQueued
        \/ discordQueued < Cap /\ discordQueued' = discordQueued + 1
    BY <1>5 DEF Discord!MessageCreate, Discord!HandlerEnds, Discord!HandlerSends,
                Discord!HandlerQuits
  <2>3. \E w \in {"sending", "sent", "dropped"} : handler' = [handler EXCEPT ![m] = w]
    BY <1>5 DEF Discord!MessageCreate, Discord!HandlerEnds, Discord!HandlerSends,
                Discord!HandlerQuits
  <2>4. discordQueued' \in 0..Cap
    BY <2>2 DEF Discord!TypeOK
  <2>5. handler' \in [Discord!Messages -> {"none", "sending", "sent", "dropped"}]
    BY <2>3 DEF Discord!TypeOK
  <2> QED
    BY <2>1, <2>4, <2>5 DEF Discord!TypeOK, DiscordInv, Discord!PanicHasCause
<1> QED
  BY <1>1, <1>2, <1>3, <1>4, <1>5 DEF Discord!Next, Discord!Terminated

LEMMA DiscordSafety == AdapterSpec => [](Discord!TypeOK /\ DiscordInv)
<1>1. InitAdapter => Discord!TypeOK /\ DiscordInv
  BY DiscordInit DEF InitAdapter
<1>2. Discord!TypeOK /\ DiscordInv /\ [NextAdapter]_<<platform, vars, telegramVars, discordVars>>
        => (Discord!TypeOK /\ DiscordInv)'
  BY DiscordNext DEF NextAdapter
<1> QED
  BY <1>1, <1>2, PTL DEF AdapterSpec

------------------------------------------------------------------------------
(* The Telegram adapter: typing.                                           *)

LEMMA TelegramInit == Telegram!Init => Telegram!TypeOK
<1> SUFFICES ASSUME Telegram!Init PROVE Telegram!TypeOK
  OBVIOUS
<1> USE BoundsTypes
<1>1. /\ confirmed \in 0..MaxUpdates /\ bots \in 0..MaxBots /\ api \in 0..bots
      /\ halted \subseteq 1..bots /\ telegramQueued \in 0..Cap
  BY DEF Telegram!Init
<1>2. telegramClosed \in BOOLEAN /\ telegramPanicked \in BOOLEAN /\ raced \in BOOLEAN
  BY Zenon DEF Telegram!Init
<1>3. /\ pump \in [Listeners -> {"none", "on", "ended"}]
      /\ telegramPc \in [Listeners -> {"idle", "checked", "select", "sending", "gone"}]
      /\ telegramCtxDone \in [Listeners -> BOOLEAN]
  BY DEF Telegram!Init
<1>4. /\ bot \in [Listeners -> 0..bots] /\ offset \in [Listeners -> 0..MaxUpdates]
      /\ held \in [Listeners -> TelegramWanted \cup {0}] /\ delivered \subseteq TelegramWanted
  BY DEF Telegram!Init
<1>5. /\ pipe \in [Listeners -> Seq(1..MaxUpdates)]
      /\ \A l \in Listeners : Len(pipe[l]) <= PumpCap /\ \A i \in DOMAIN pipe[l] : pipe[l][i] <= offset[l]
  BY DEF Telegram!Init
<1> QED
  BY <1>1, <1>2, <1>3, <1>4, <1>5, Zenon DEF Telegram!TypeOK, TelegramWanted

\* The values in a channel.
Values(q) == {q[i] : i \in DOMAIN q}

LEMMA ValuesAppend ==
  ASSUME NEW S, NEW q \in Seq(S), NEW e \in S
  PROVE  /\ Append(q, e) \in Seq(S) /\ Len(Append(q, e)) = Len(q) + 1
         /\ Values(Append(q, e)) = Values(q) \cup {e}
<1>1. /\ Len(q) \in Nat /\ DOMAIN q = 1..Len(q)
      /\ Append(q, e) \in Seq(S) /\ Len(Append(q, e)) = Len(q) + 1
      /\ \A i \in 1..Len(q) : Append(q, e)[i] = q[i]
      /\ Append(q, e)[Len(q) + 1] = e
  BY AppendProperties, LenProperties
<1>2. DOMAIN Append(q, e) = 1..Len(q) + 1
  BY <1>1, LenProperties
<1>3. \A i \in DOMAIN Append(q, e) : Append(q, e)[i] \in Values(q) \cup {e}
  BY <1>1, <1>2 DEF Values
<1>4. \A v \in Values(q) \cup {e} : \E i \in DOMAIN Append(q, e) : Append(q, e)[i] = v
  BY <1>1, <1>2 DEF Values
<1>5. Values(Append(q, e)) = {Append(q, e)[i] : i \in DOMAIN Append(q, e)}
  BY DEF Values
<1>6. Values(Append(q, e)) = Values(q) \cup {e}
  BY <1>3, <1>4, <1>5, SMT
<1> QED
  BY <1>1, <1>6

LEMMA ValuesTail ==
  ASSUME NEW S, NEW q \in Seq(S), q # <<>>
  PROVE  /\ Head(q) \in S /\ Tail(q) \in Seq(S) /\ Len(Tail(q)) = Len(q) - 1
         /\ Values(q) = Values(Tail(q)) \cup {Head(q)}
<1>1. /\ Len(q) \in Nat /\ Len(q) > 0 /\ DOMAIN q = 1..Len(q)
  BY EmptySeq, LenProperties
<1>2. /\ Head(q) = q[1] /\ Tail(q) \in Seq(S) /\ Len(Tail(q)) = Len(q) - 1
      /\ \A i \in 1..Len(q) - 1 : Tail(q)[i] = q[i + 1]
  BY <1>1
<1>3. DOMAIN Tail(q) = 1..Len(q) - 1
  BY <1>1, <1>2, LenProperties
<1>4. ASSUME NEW i \in DOMAIN q PROVE q[i] \in Values(Tail(q)) \cup {Head(q)}
  <2>1. CASE i = 1
    BY <1>2, <2>1
  <2>2. CASE i # 1
    <3>1. i - 1 \in DOMAIN Tail(q) /\ q[i] = Tail(q)[i - 1]
      BY <1>1, <1>2, <1>3, <2>2
    <3> QED
      BY <3>1 DEF Values
  <2> QED
    BY <2>1, <2>2
<1>5. ASSUME NEW v \in Values(Tail(q)) \cup {Head(q)} PROVE \E i \in DOMAIN q : q[i] = v
  <2>1. CASE v = Head(q)
    BY <1>1, <1>2, <2>1
  <2>2. CASE v \in Values(Tail(q))
    <3>1. PICK i \in DOMAIN Tail(q) : v = Tail(q)[i]
      BY <2>2 DEF Values
    <3>2. i + 1 \in DOMAIN q /\ v = q[i + 1]
      BY <1>1, <1>2, <1>3, <3>1
    <3> QED
      BY <3>2
  <2> QED
    BY <2>1, <2>2
<1>6. Values(q) = {q[i] : i \in DOMAIN q}
  BY DEF Values
<1>7. Values(q) = Values(Tail(q)) \cup {Head(q)}
  BY <1>4, <1>5, <1>6, SMT
<1>8. Head(q) \in S
  BY <1>1, <1>2, ElementOfSeq
<1> QED
  BY <1>2, <1>7, <1>8

LEMMA MaxOfTwo ==
  ASSUME NEW a \in Nat, NEW b \in Nat
  PROVE  LET m == Telegram!Max({a, b}) IN m \in {a, b} /\ a <= m /\ b <= m
<1>1. \E m \in {a, b} : \A y \in {a, b} : m >= y
  <2>1. CASE a >= b
    BY <2>1
  <2>2. CASE b >= a
    BY <2>2
  <2> QED
    BY <2>1, <2>2
<1>2. LET m == Telegram!Max({a, b}) IN m \in {a, b} /\ \A y \in {a, b} : m >= y
  BY <1>1, Zenon DEF Telegram!Max
<1> QED
  BY <1>2

\* What PumpFetches does.
LEMMA PumpFetchesEffect ==
  ASSUME Telegram!TypeOK, NEW l \in Listeners, Telegram!PumpFetches(l)
  PROVE  /\ confirmed' \in {offset[l], confirmed} /\ offset[l] <= confirmed' /\ confirmed <= confirmed'
         /\ confirmed' \in 0..MaxUpdates /\ confirmed' + 1 \in 1..MaxUpdates
         /\ offset' \in [Listeners -> 0..MaxUpdates] /\ offset'[l] = confirmed' + 1
         /\ pipe' \in [Listeners -> Seq(1..MaxUpdates)]
         /\ Len(pipe'[l]) <= PumpCap /\ Values(pipe'[l]) = Values(pipe[l]) \cup {offset'[l]}
         /\ \A m \in Listeners \ {l} : pipe'[m] = pipe[m] /\ offset'[m] = offset[m]
<1> USE BoundsTypes
<1>1. offset[l] \in Nat /\ confirmed \in Nat /\ offset[l] <= MaxUpdates /\ confirmed <= MaxUpdates
  BY DEF Telegram!TypeOK
<1>2. /\ confirmed' = Telegram!Max({offset[l], confirmed}) /\ confirmed' < MaxUpdates
      /\ Len(pipe[l]) < PumpCap
      /\ offset' = [offset EXCEPT ![l] = confirmed' + 1]
      /\ pipe' = [pipe EXCEPT ![l] = Append(@, confirmed' + 1)]
  BY Zenon DEF Telegram!PumpFetches
<1>3. confirmed' \in {offset[l], confirmed} /\ offset[l] <= confirmed' /\ confirmed <= confirmed'
  BY <1>1, <1>2, MaxOfTwo
<1>4. confirmed' \in 0..MaxUpdates /\ confirmed' + 1 \in 1..MaxUpdates
  BY <1>1, <1>2, <1>3
<1>5. /\ offset' \in [Listeners -> 0..MaxUpdates] /\ offset'[l] = confirmed' + 1
      /\ \A m \in Listeners \ {l} : offset'[m] = offset[m]
  BY <1>2, <1>4 DEF Telegram!TypeOK
<1>6. pipe[l] \in Seq(1..MaxUpdates) /\ pipe \in [Listeners -> Seq(1..MaxUpdates)]
  BY DEF Telegram!TypeOK
<1>7. /\ Append(pipe[l], confirmed' + 1) \in Seq(1..MaxUpdates)
      /\ Len(Append(pipe[l], confirmed' + 1)) = Len(pipe[l]) + 1
      /\ Values(Append(pipe[l], confirmed' + 1)) = Values(pipe[l]) \cup {confirmed' + 1}
  BY <1>4, <1>6, ValuesAppend
<1>8. /\ pipe' \in [Listeners -> Seq(1..MaxUpdates)]
      /\ pipe'[l] = Append(pipe[l], confirmed' + 1)
      /\ \A m \in Listeners \ {l} : pipe'[m] = pipe[m]
  BY <1>2, <1>6, <1>7
<1>9. Len(pipe'[l]) <= PumpCap
  BY <1>2, <1>6, <1>7, <1>8, LenProperties
<1> QED
  BY <1>3, <1>4, <1>5, <1>7, <1>8, <1>9

\* What TakeUpdate does.
LEMMA TakeUpdateEffect ==
  ASSUME Telegram!TypeOK, NEW l \in Listeners, Telegram!TakeUpdate(l)
  PROVE  /\ pipe' \in [Listeners -> Seq(1..MaxUpdates)]
         /\ Len(pipe'[l]) <= PumpCap /\ telegramPc[l] = "select"
         /\ \A m \in Listeners \ {l} :
              pipe'[m] = pipe[m] /\ held'[m] = held[m] /\ telegramPc'[m] = telegramPc[m]
         /\ \E u \in 1..MaxUpdates :
              /\ Values(pipe[l]) = Values(pipe'[l]) \cup {u}
              /\ \/ u \in TelegramWanted /\ held'[l] = u /\ telegramPc'[l] = "sending"
                 \/ u \notin TelegramWanted /\ held'[l] = held[l] /\ telegramPc'[l] = "select"
         /\ held' \in [Listeners -> TelegramWanted \cup {0}]
         /\ telegramPc' \in [Listeners -> {"idle", "checked", "select", "sending", "gone"}]
<1> USE BoundsTypes
<1>1. /\ pipe \in [Listeners -> Seq(1..MaxUpdates)] /\ Len(pipe[l]) <= PumpCap
      /\ held \in [Listeners -> TelegramWanted \cup {0}]
      /\ telegramPc \in [Listeners -> {"idle", "checked", "select", "sending", "gone"}]
  BY DEF Telegram!TypeOK, TelegramWanted
<1>2. /\ telegramPc[l] = "select" /\ pipe[l] # <<>> /\ pipe' = [pipe EXCEPT ![l] = Tail(@)]
      /\ \/ /\ Head(pipe[l]) \in TelegramWanted
            /\ held' = [held EXCEPT ![l] = Head(pipe[l])]
            /\ telegramPc' = [telegramPc EXCEPT ![l] = "sending"]
         \/ Head(pipe[l]) \notin TelegramWanted /\ UNCHANGED <<held, telegramPc>>
  BY Zenon DEF Telegram!TakeUpdate, Telegram!Goto, TelegramWanted
<1>3. /\ Head(pipe[l]) \in 1..MaxUpdates /\ Tail(pipe[l]) \in Seq(1..MaxUpdates)
      /\ Len(Tail(pipe[l])) = Len(pipe[l]) - 1
      /\ Values(pipe[l]) = Values(Tail(pipe[l])) \cup {Head(pipe[l])}
  BY <1>1, <1>2, ValuesTail
<1>4. /\ pipe' \in [Listeners -> Seq(1..MaxUpdates)] /\ pipe'[l] = Tail(pipe[l])
      /\ \A m \in Listeners \ {l} : pipe'[m] = pipe[m]
  BY <1>1, <1>2, <1>3
<1>5. Len(pipe'[l]) <= PumpCap
  BY <1>1, <1>3, <1>4, LenProperties
<1>6. /\ held' \in [Listeners -> TelegramWanted \cup {0}]
      /\ telegramPc' \in [Listeners -> {"idle", "checked", "select", "sending", "gone"}]
      /\ \A m \in Listeners \ {l} : held'[m] = held[m] /\ telegramPc'[m] = telegramPc[m]
      /\ \/ /\ Head(pipe[l]) \in TelegramWanted
            /\ held'[l] = Head(pipe[l]) /\ telegramPc'[l] = "sending"
         \/ /\ Head(pipe[l]) \notin TelegramWanted
            /\ held'[l] = held[l] /\ telegramPc'[l] = "select"
  BY <1>1, <1>2
<1> QED
  BY <1>2, <1>3, <1>4, <1>5, <1>6

------------------------------------------------------------------------------
(* The Telegram adapter: the invariant.                                    *)

\* An update that the reader has, or will have if nobody stops the listener.
Safe(u) ==
  u \in delivered \/ \E l \in Listeners : u = held[l] \/ u \in Values(pipe[l])

TelegramPanic ==
  /\ telegramClosed => bots > 0 /\ (bots > 1 \/ api = 0)
  /\ \A l \in Listeners : telegramPc[l] = "checked" /\ api = 0 => raced
  /\ Telegram!PanicHasCause

Undisturbed == ~telegramClosed /\ \A l \in Listeners : ~telegramCtxDone[l]

TelegramSafe ==
  /\ \A l \in Listeners : telegramPc[l] = "sending" <=> held[l] # 0
  /\ \A l \in Listeners : offset[l] <= confirmed + 1
  /\ Undisturbed =>
       /\ \A u \in TelegramWanted : u <= confirmed => Safe(u)
       /\ \A l \in Listeners : offset[l] \in TelegramWanted => Safe(offset[l])

TelegramInv == Telegram!TypeOK /\ TelegramPanic /\ TelegramSafe

\* A step that only moves wanted updates on keeps them safe.
LEMMA SafeKept ==
  ASSUME delivered \subseteq delivered',
         \A l \in Listeners : \A u \in TelegramWanted :
           u = held[l] \/ u \in Values(pipe[l])
             => u \in delivered' \/ u = held'[l] \/ u \in Values(pipe'[l])
  PROVE  \A u \in TelegramWanted : Safe(u) => Safe(u)'
  BY Zenon DEF Safe

\* A step that keeps them safe, the confirmed ones and the offsets.
LEMMA SafetyKept ==
  ASSUME TelegramSafe, Undisturbed' => Undisturbed,
         UNCHANGED <<confirmed, offset>>,
         \A l \in Listeners : telegramPc'[l] = "sending" <=> held'[l] # 0,
         Undisturbed' => \A u \in TelegramWanted : Safe(u) => Safe(u)'
  PROVE  TelegramSafe'
<1>1. \A l \in Listeners : offset'[l] <= confirmed' + 1
  BY DEF TelegramSafe
<1>2. ASSUME Undisturbed' PROVE \A u \in TelegramWanted : u <= confirmed' => Safe(u)'
  BY <1>2 DEF TelegramSafe
<1>3. ASSUME Undisturbed', NEW l \in Listeners, offset'[l] \in TelegramWanted
      PROVE  Safe(offset[l])'
  <2>1. PICK u \in TelegramWanted : u = offset[l] /\ u = offset'[l]
    BY <1>3
  <2>2. Safe(u)
    BY <1>3, <2>1 DEF TelegramSafe
  <2>3. Safe(u)'
    BY <1>3, <2>2
  <2> QED
    BY <2>1, <2>3 DEF Safe
<1> QED
  BY <1>1, <1>2, <1>3, Zenon DEF TelegramSafe, TelegramWanted

LEMMA TelegramInvInit == Telegram!Init => TelegramInv
<1> SUFFICES ASSUME Telegram!Init PROVE TelegramInv
  OBVIOUS
<1>1. Telegram!TypeOK
  BY TelegramInit
<1>2. TelegramPanic
  BY DEF Telegram!Init, TelegramPanic, Telegram!PanicHasCause
<1>3. TelegramSafe
  <2>1. /\ \A l \in Listeners : telegramPc[l] = "sending" <=> held[l] # 0
        /\ \A l \in Listeners : offset[l] <= confirmed + 1
    BY DEF Telegram!Init
  <2>2. \A u \in TelegramWanted : u > 0
    BY BoundsTypes DEF TelegramWanted
  <2>3. /\ \A u \in TelegramWanted : u <= confirmed => Safe(u)
        /\ \A l \in Listeners : offset[l] \in TelegramWanted => Safe(offset[l])
    BY <2>2, BoundsTypes DEF Telegram!Init, TelegramWanted
  <2> QED
    BY <2>1, <2>3, Zenon DEF TelegramSafe
<1> QED
  BY <1>1, <1>2, <1>3 DEF TelegramInv

\* The outside's steps and the adapter's operations.
LEMMA TelegramOperations ==
  ASSUME TelegramInv,
         \/ UNCHANGED telegramVars \/ UNCHANGED Telegram!vars
         \/ Telegram!Take \/ Telegram!Connect \/ Telegram!Close
  PROVE  TelegramInv'
<1> USE BoundsTypes
<1>0. UNCHANGED <<confirmed, pump, offset, pipe, telegramPc, bot, held, telegramCtxDone, delivered>>
  BY DEF telegramVars, Telegram!vars, Telegram!Take, Telegram!Connect, Telegram!Close,
         Telegram!adapter, Telegram!library, Telegram!pumps, Telegram!history
<1>1. Telegram!TypeOK'
  <2>1. /\ bots \in 0..MaxBots /\ api \in 0..bots /\ halted \subseteq 1..bots
        /\ telegramQueued \in 0..Cap /\ bot \in [Listeners -> 0..bots]
        /\ telegramClosed \in BOOLEAN /\ telegramPanicked \in BOOLEAN /\ raced \in BOOLEAN
    BY Zenon DEF TelegramInv, Telegram!TypeOK
  <2>2. /\ bots' \in 0..MaxBots /\ bots <= bots' /\ api' \in 0..bots' /\ telegramQueued' \in 0..Cap
    BY <2>1 DEF telegramVars, Telegram!vars, Telegram!Take, Telegram!Connect, Telegram!Close,
           Telegram!adapter, Telegram!library, Telegram!history
  <2>3. halted' = halted \/ (api \in 1..bots /\ halted' = halted \cup {api})
    BY <2>1 DEF telegramVars, Telegram!vars, Telegram!Take, Telegram!Connect, Telegram!Close,
           Telegram!adapter, Telegram!library, Telegram!history
  <2>4. 1..bots \subseteq 1..bots' /\ 0..bots \subseteq 0..bots'
    BY <2>1, <2>2
  <2>5. halted' \subseteq 1..bots' /\ bot' \in [Listeners -> 0..bots']
    BY <1>0, <2>1, <2>3, <2>4
  <2>6. telegramClosed' \in BOOLEAN /\ telegramPanicked' \in BOOLEAN /\ raced' \in BOOLEAN
    BY <2>1, Zenon DEF telegramVars, Telegram!vars, Telegram!Take, Telegram!Connect,
           Telegram!Close, Telegram!adapter, Telegram!library, Telegram!history
  <2> QED
    BY <1>0, <2>2, <2>5, <2>6, Zenon DEF TelegramInv, Telegram!TypeOK
<1>2. TelegramPanic'
  <2>1. bots \in Nat /\ api \in 0..bots
    BY DEF TelegramInv, Telegram!TypeOK
  <2>2. CASE Telegram!Close
    <3>1. /\ api # 0 /\ bots' = bots /\ telegramPc' = telegramPc
          /\ telegramPanicked' = telegramClosed
          /\ api' = IF telegramClosed THEN api ELSE 0
      BY <2>2 DEF Telegram!Close
    <3>2. (\E l \in Listeners : telegramPc[l] = "checked") => raced'
      BY <2>2, Zenon DEF Telegram!Close
    <3>3. bots > 0 /\ (telegramClosed => bots > 1)
      BY <2>1, <3>1 DEF TelegramInv, TelegramPanic
    <3>4. bots' > 0 /\ (bots' > 1 \/ api' = 0)
      BY <3>1, <3>3
    <3>5. Telegram!PanicHasCause'
      BY <3>1, <3>3, Zenon DEF Telegram!PanicHasCause
    <3> QED
      BY <3>1, <3>2, <3>4, <3>5, Zenon DEF TelegramPanic
  <2>3. CASE Telegram!Connect
    BY <1>0, <2>1, <2>3 DEF TelegramInv, TelegramPanic, Telegram!PanicHasCause,
          Telegram!Connect, Telegram!history
  <2>4. CASE UNCHANGED telegramVars \/ UNCHANGED Telegram!vars \/ Telegram!Take
    BY <1>0, <2>4 DEF TelegramInv, TelegramPanic, Telegram!PanicHasCause, telegramVars,
          Telegram!vars, Telegram!Take, Telegram!adapter, Telegram!library, Telegram!history
  <2> QED
    BY <2>2, <2>3, <2>4
<1>3. TelegramSafe'
  <2>1. Undisturbed' => Undisturbed
    BY <1>0 DEF Undisturbed, telegramVars, Telegram!vars, Telegram!Take, Telegram!Connect,
          Telegram!Close, Telegram!adapter
  <2>2. \A u \in TelegramWanted : Safe(u) => Safe(u)'
    BY <1>0 DEF Safe
  <2>3. \A l \in Listeners : telegramPc'[l] = "sending" <=> held'[l] # 0
    BY <1>0 DEF TelegramInv, TelegramSafe
  <2> QED
    BY <1>0, <2>1, <2>2, <2>3, SafetyKept DEF TelegramInv
<1> QED
  BY <1>1, <1>2, <1>3 DEF TelegramInv

\* The listeners' steps that take nothing from a pump.
Quiet(l) ==
  \/ Telegram!CancelContext(l) \/ Telegram!PumpEnds(l)
  \/ Telegram!ListenChecks(l) \/ Telegram!ListenCalls(l) \/ Telegram!Cancelled(l)
  \/ Telegram!UpdatesEnd(l) \/ Telegram!Deliver(l) \/ Telegram!SendClosed(l)

LEMMA QuietTypes ==
  ASSUME Telegram!TypeOK, TelegramSafe, NEW l \in Listeners, Quiet(l)
  PROVE  Telegram!TypeOK'
<1> USE BoundsTypes DEF Telegram!CancelContext, Telegram!PumpEnds, Telegram!ListenChecks,
        Telegram!ListenCalls, Telegram!Cancelled, Telegram!UpdatesEnd, Telegram!Deliver,
        Telegram!SendClosed, Telegram!adapter, Telegram!library, Telegram!pumps,
        Telegram!history, Telegram!Goto
<1>1. UNCHANGED <<confirmed, api, telegramClosed, bots, halted, offset, pipe, raced>>
  BY DEF Quiet
<1>2. pump' \in [Listeners -> {"none", "on", "ended"}]
  <2>1. pump' = pump \/ \E w \in {"on", "ended"} : pump' = [pump EXCEPT ![l] = w]
    BY Zenon DEF Quiet
  <2> QED
    BY <2>1 DEF Telegram!TypeOK
<1>3. telegramPc' \in [Listeners -> {"idle", "checked", "select", "sending", "gone"}]
  <2>1. \/ telegramPc' = telegramPc
        \/ \E w \in {"checked", "select", "gone"} : telegramPc' = [telegramPc EXCEPT ![l] = w]
    BY Zenon DEF Quiet
  <2> QED
    BY <2>1 DEF Telegram!TypeOK
<1>4. bot' \in [Listeners -> 0..bots]
  <2>1. bot' = bot \/ bot' = [bot EXCEPT ![l] = api]
    BY Zenon DEF Quiet
  <2> QED
    BY <2>1 DEF Telegram!TypeOK
<1>5. telegramCtxDone' \in [Listeners -> BOOLEAN]
  <2>1. telegramCtxDone' = telegramCtxDone \/ telegramCtxDone' = [telegramCtxDone EXCEPT ![l] = TRUE]
    BY Zenon DEF Quiet
  <2> QED
    BY <2>1, Zenon DEF Telegram!TypeOK
<1>6. held' \in [Listeners -> TelegramWanted \cup {0}]
  <2>1. held' = held \/ held' = [held EXCEPT ![l] = 0]
    BY Zenon DEF Quiet
  <2> QED
    BY <2>1 DEF Telegram!TypeOK, TelegramWanted
<1>7. delivered' \subseteq TelegramWanted /\ telegramQueued' \in 0..Cap
  <2>1. telegramQueued \in 0..Cap /\ delivered \subseteq TelegramWanted
        /\ held[l] \in TelegramWanted \cup {0}
    BY DEF Telegram!TypeOK, TelegramWanted
  <2>2. CASE Telegram!Deliver(l)
    <3>1. held[l] # 0
      BY <2>2 DEF TelegramSafe
    <3> QED
      BY <2>1, <2>2, <3>1
  <2>3. CASE ~Telegram!Deliver(l)
    <3>1. delivered' = delivered /\ telegramQueued' = telegramQueued
      BY <2>3, Zenon DEF Quiet
    <3> QED
      BY <2>1, <3>1
  <2> QED
    BY <2>2, <2>3
<1>8. telegramPanicked' \in BOOLEAN
  <2>1. telegramPanicked' = telegramPanicked \/ telegramPanicked' = TRUE
    BY Zenon DEF Quiet
  <2> QED
    BY <2>1, Zenon DEF Telegram!TypeOK
<1> QED
  BY <1>1, <1>2, <1>3, <1>4, <1>5, <1>6, <1>7, <1>8, Zenon DEF Telegram!TypeOK, TelegramWanted

LEMMA QuietKeeps ==
  ASSUME TelegramInv, NEW l \in Listeners, Quiet(l)
  PROVE  TelegramInv'
<1> USE DEF Telegram!CancelContext, Telegram!PumpEnds, Telegram!ListenChecks,
        Telegram!ListenCalls, Telegram!Cancelled, Telegram!UpdatesEnd, Telegram!Deliver,
        Telegram!SendClosed, Telegram!adapter, Telegram!library, Telegram!pumps,
        Telegram!history, Telegram!Goto
<1>1. Telegram!TypeOK /\ TelegramPanic /\ TelegramSafe
  BY DEF TelegramInv
<1>2. Telegram!TypeOK'
  BY <1>1, QuietTypes
<1>3. UNCHANGED <<confirmed, api, telegramClosed, bots, offset, pipe, raced>>
  BY DEF Quiet
<1>4. /\ held \in [Listeners -> TelegramWanted \cup {0}]
      /\ telegramPc \in [Listeners -> {"idle", "checked", "select", "sending", "gone"}]
      /\ telegramCtxDone \in [Listeners -> BOOLEAN]
  BY <1>1 DEF Telegram!TypeOK, TelegramWanted
<1>5. TelegramPanic'
  <2>1. \/ telegramPc' = telegramPc
        \/ api # 0 /\ telegramPc' = [telegramPc EXCEPT ![l] = "checked"]
        \/ \E w \in {"select", "gone"} : telegramPc' = [telegramPc EXCEPT ![l] = w]
    BY Zenon DEF Quiet
  <2>2. \A m \in Listeners : telegramPc'[m] = "checked" => telegramPc[m] = "checked" \/ api # 0
    BY <1>4, <2>1
  <2>3. \/ telegramPanicked' = telegramPanicked
        \/ telegramPc[l] = "checked" /\ api = 0
    BY Zenon DEF Quiet
  <2>4. Telegram!PanicHasCause'
    BY <1>1, <1>3, <2>3, Zenon DEF TelegramPanic, Telegram!PanicHasCause
  <2> QED
    BY <1>1, <1>3, <2>2, <2>4, Zenon DEF TelegramPanic
<1>6. TelegramSafe'
  <2>1. Undisturbed' => Undisturbed
    <3>1. telegramCtxDone' = telegramCtxDone \/ telegramCtxDone' = [telegramCtxDone EXCEPT ![l] = TRUE]
      BY Zenon DEF Quiet
    <3> QED
      BY <1>3, <1>4, <3>1 DEF Undisturbed
  <2>2. \A m \in Listeners : telegramPc'[m] = "sending" <=> held'[m] # 0
    <3>1. \/ telegramPc' = telegramPc /\ held' = held
          \/ /\ telegramPc[l] # "sending" /\ held' = held
             /\ \E w \in {"checked", "select", "gone"} : telegramPc' = [telegramPc EXCEPT ![l] = w]
          \/ /\ held' = [held EXCEPT ![l] = 0]
             /\ \E w \in {"select", "gone"} : telegramPc' = [telegramPc EXCEPT ![l] = w]
      BY Zenon DEF Quiet
    <3> QED
      BY <1>1, <1>4, <3>1 DEF TelegramSafe
  <2>3. Undisturbed' => \A u \in TelegramWanted : Safe(u) => Safe(u)'
    <3> SUFFICES ASSUME Undisturbed' PROVE \A u \in TelegramWanted : Safe(u) => Safe(u)'
      OBVIOUS
    <3>1. \/ delivered' = delivered /\ held' = held
          \/ delivered' = delivered \cup {held[l]} /\ held' = [held EXCEPT ![l] = 0]
          \/ telegramClosed \/ telegramCtxDone[l]
      BY Zenon DEF Quiet
    <3>2. ~telegramClosed /\ ~telegramCtxDone[l]
      BY <2>1 DEF Undisturbed
    <3>3. delivered \subseteq delivered'
      BY <3>1, <3>2
    <3>4. ASSUME NEW m \in Listeners, NEW u \in TelegramWanted, u = held[m] \/ u \in Values(pipe[m])
          PROVE  u \in delivered' \/ u = held'[m] \/ u \in Values(pipe'[m])
      BY <1>3, <1>4, <3>1, <3>2, <3>4
    <3> QED
      BY <3>3, <3>4, SafeKept
  <2> QED
    BY <1>1, <1>3, <2>1, <2>2, <2>3, SafetyKept
<1> QED
  BY <1>2, <1>5, <1>6 DEF TelegramInv

LEMMA TakeKeeps ==
  ASSUME TelegramInv, NEW l \in Listeners, Telegram!TakeUpdate(l)
  PROVE  TelegramInv'
<1>1. Telegram!TypeOK /\ TelegramPanic /\ TelegramSafe
  BY DEF TelegramInv
<1>2. UNCHANGED <<confirmed, api, telegramClosed, telegramQueued, bots, halted, pump, offset,
                  bot, telegramCtxDone, telegramPanicked, raced, delivered>>
  BY DEF Telegram!TakeUpdate, Telegram!adapter, Telegram!library, Telegram!history
<1>3. PICK u \in 1..MaxUpdates :
        /\ Values(pipe[l]) = Values(pipe'[l]) \cup {u}
        /\ \/ u \in TelegramWanted /\ held'[l] = u /\ telegramPc'[l] = "sending"
           \/ u \notin TelegramWanted /\ held'[l] = held[l] /\ telegramPc'[l] = "select"
  BY <1>1, TakeUpdateEffect
<1>4. /\ Len(pipe'[l]) <= PumpCap /\ telegramPc[l] = "select"
      /\ \A m \in Listeners \ {l} :
           pipe'[m] = pipe[m] /\ held'[m] = held[m] /\ telegramPc'[m] = telegramPc[m]
      /\ pipe' \in [Listeners -> Seq(1..MaxUpdates)]
      /\ held' \in [Listeners -> TelegramWanted \cup {0}]
      /\ telegramPc' \in [Listeners -> {"idle", "checked", "select", "sending", "gone"}]
  BY <1>1, TakeUpdateEffect
<1>5. held[l] = 0
  BY <1>1, <1>4 DEF TelegramSafe
<1>6. Telegram!TypeOK'
  <2>1. ASSUME NEW m \in Listeners
        PROVE  Len(pipe'[m]) <= PumpCap /\ \A i \in DOMAIN pipe'[m] : pipe'[m][i] <= offset'[m]
    <3>1. /\ Len(pipe[m]) <= PumpCap
          /\ \A v \in Values(pipe[m]) : v <= offset[m]
      <4>1. /\ Len(pipe[m]) <= PumpCap
            /\ \A i \in DOMAIN pipe[m] : pipe[m][i] <= offset[m]
        BY <1>1, Zenon DEF Telegram!TypeOK
      <4> QED
        BY <4>1 DEF Values
    <3>2. Len(pipe'[m]) <= PumpCap /\ \A v \in Values(pipe'[m]) : v \in Values(pipe[m])
      BY <1>3, <1>4, <3>1
    <3>3. \A i \in DOMAIN pipe'[m] : pipe'[m][i] \in Values(pipe'[m])
      BY DEF Values
    <3>4. offset'[m] = offset[m]
      BY <1>2
    <3> QED
      BY <3>1, <3>2, <3>3, <3>4
  <2> QED
    BY <1>1, <1>2, <1>4, <2>1, Zenon DEF Telegram!TypeOK, TelegramWanted
<1>7. TelegramPanic'
  <2>1. \A m \in Listeners : telegramPc'[m] = "checked" => telegramPc[m] = "checked"
    BY <1>3, <1>4
  <2> QED
    BY <1>1, <1>2, <2>1, Zenon DEF TelegramPanic, Telegram!PanicHasCause
<1>8. TelegramSafe'
  <2>1. Undisturbed' => Undisturbed
    BY <1>2 DEF Undisturbed
  <2>2. ASSUME NEW m \in Listeners
        PROVE  telegramPc'[m] = "sending" <=> held'[m] # 0
    <3>1. CASE m = l
      BY <1>3, <1>5, <3>1
    <3>2. CASE m # l
      <4>1. telegramPc'[m] = telegramPc[m] /\ held'[m] = held[m]
        BY <1>4, <3>2
      <4>2. telegramPc[m] = "sending" <=> held[m] # 0
        BY <1>1 DEF TelegramSafe
      <4> QED
        BY <4>1, <4>2
    <3> QED
      BY <3>1, <3>2
  <2>3. ASSUME NEW m \in Listeners, NEW v \in TelegramWanted, v = held[m] \/ v \in Values(pipe[m])
        PROVE  v \in delivered' \/ v = held'[m] \/ v \in Values(pipe'[m])
    <3>1. v # 0
      BY BoundsTypes DEF TelegramWanted
    <3> QED
      BY <1>3, <1>4, <1>5, <2>3, <3>1
  <2>4. \A v \in TelegramWanted : Safe(v) => Safe(v)'
    BY <1>2, <2>3, SafeKept
  <2> QED
    BY <1>1, <1>2, <2>1, <2>2, <2>4, SafetyKept
<1> QED
  BY <1>6, <1>7, <1>8 DEF TelegramInv

LEMMA FetchKeeps ==
  ASSUME TelegramInv, NEW l \in Listeners, Telegram!PumpFetches(l)
  PROVE  TelegramInv'
<1> USE BoundsTypes
<1>1. Telegram!TypeOK /\ TelegramPanic /\ TelegramSafe
  BY DEF TelegramInv
<1>2. UNCHANGED <<api, telegramClosed, telegramQueued, bots, halted, pump, telegramPc,
                  bot, held, telegramCtxDone, telegramPanicked, raced, delivered>>
  BY DEF Telegram!PumpFetches, Telegram!adapter, Telegram!library, Telegram!history
<1>3. /\ confirmed' \in {offset[l], confirmed} /\ offset[l] <= confirmed' /\ confirmed <= confirmed'
      /\ confirmed' \in 0..MaxUpdates /\ confirmed' + 1 \in 1..MaxUpdates
      /\ offset' \in [Listeners -> 0..MaxUpdates] /\ offset'[l] = confirmed' + 1
      /\ pipe' \in [Listeners -> Seq(1..MaxUpdates)]
      /\ Len(pipe'[l]) <= PumpCap /\ Values(pipe'[l]) = Values(pipe[l]) \cup {offset'[l]}
      /\ \A m \in Listeners \ {l} : pipe'[m] = pipe[m] /\ offset'[m] = offset[m]
  BY <1>1, PumpFetchesEffect
<1>4. confirmed \in Nat /\ \A m \in Listeners : offset[m] \in Nat
  BY <1>1 DEF Telegram!TypeOK
<1>5. Telegram!TypeOK'
  <2>1. ASSUME NEW m \in Listeners
        PROVE  Len(pipe'[m]) <= PumpCap /\ \A i \in DOMAIN pipe'[m] : pipe'[m][i] <= offset'[m]
    <3>1. /\ Len(pipe[m]) <= PumpCap
          /\ \A v \in Values(pipe[m]) : v <= offset[m]
          /\ Values(pipe[m]) \subseteq 1..MaxUpdates
      <4>1. /\ pipe[m] \in Seq(1..MaxUpdates) /\ Len(pipe[m]) <= PumpCap
            /\ \A i \in DOMAIN pipe[m] : pipe[m][i] <= offset[m]
        BY <1>1, Zenon DEF Telegram!TypeOK
      <4>2. \A i \in DOMAIN pipe[m] : pipe[m][i] \in 1..MaxUpdates
        BY <4>1, ElementOfSeq, LenProperties
      <4> QED
        BY <4>1, <4>2 DEF Values
    <3>2. CASE m = l
      <4>1. /\ Len(pipe'[m]) <= PumpCap /\ offset'[m] = confirmed' + 1
            /\ Values(pipe'[m]) = Values(pipe[m]) \cup {offset'[m]}
        BY <1>3, <3>2
      <4>2. offset[m] <= confirmed' /\ confirmed' \in Nat
        BY <1>3, <3>2
      <4>3. \A v \in Values(pipe'[m]) : v <= offset'[m]
        BY <1>4, <3>1, <4>1, <4>2
      <4> QED
        BY <4>1, <4>3 DEF Values
    <3>3. CASE m # l
      <4>1. pipe'[m] = pipe[m] /\ offset'[m] = offset[m]
        BY <1>3, <3>3
      <4> QED
        BY <3>1, <4>1 DEF Values
    <3> QED
      BY <3>2, <3>3
  <2> QED
    BY <1>1, <1>2, <1>3, <2>1, Zenon DEF Telegram!TypeOK, TelegramWanted
<1>6. TelegramPanic'
  BY <1>1, <1>2, Zenon DEF TelegramPanic, Telegram!PanicHasCause
<1>7. TelegramSafe'
  <2>1. /\ \A m \in Listeners : telegramPc[m] = "sending" <=> held[m] # 0
        /\ \A m \in Listeners : offset[m] <= confirmed + 1
    BY <1>1, Zenon DEF TelegramSafe
  <2>2. ASSUME NEW m \in Listeners PROVE offset'[m] <= confirmed' + 1
    <3>1. confirmed <= confirmed' /\ confirmed' \in Nat /\ offset[m] <= confirmed + 1
      BY <1>3, <2>1
    <3>2. offset'[m] = confirmed' + 1 \/ offset'[m] = offset[m]
      BY <1>3, Zenon
    <3> QED
      BY <1>4, <3>1, <3>2
  <2>3. ASSUME NEW m \in Listeners, NEW v \in TelegramWanted, v = held[m] \/ v \in Values(pipe[m])
        PROVE  v \in delivered' \/ v = held'[m] \/ v \in Values(pipe'[m])
    BY <1>2, <1>3, <2>3
  <2>4. \A v \in TelegramWanted : Safe(v) => Safe(v)'
    BY <1>2, <2>3, SafeKept
  <2>5. ASSUME Undisturbed'
        PROVE  /\ \A u \in TelegramWanted : u <= confirmed => Safe(u)
               /\ \A m \in Listeners : offset[m] \in TelegramWanted => Safe(offset[m])
    BY <1>1, <1>2, <2>5, Zenon DEF TelegramSafe, Undisturbed
  <2>6. ASSUME Undisturbed', NEW u \in TelegramWanted, u <= confirmed' PROVE Safe(u)'
    <3>1. u \in Nat
      BY DEF TelegramWanted
    <3>2. u <= confirmed \/ u = offset[l]
      BY <1>3, <1>4, <2>1, <2>6, <3>1
    <3>3. Safe(u)
      BY <2>5, <2>6, <3>2
    <3> QED
      BY <2>4, <3>3
  <2>7. ASSUME Undisturbed', NEW m \in Listeners, NEW u \in TelegramWanted, u = offset'[m]
        PROVE  Safe(u)'
    <3>1. CASE m = l
      BY <1>3, <2>7, <3>1 DEF Safe
    <3>2. CASE m # l
      <4>1. Safe(u)
        BY <1>3, <2>5, <2>7, <3>2
      <4> QED
        BY <2>4, <4>1
    <3> QED
      BY <3>1, <3>2
  <2>8. Undisturbed' => \A m \in Listeners : offset'[m] \in TelegramWanted => Safe(offset[m])'
    BY <2>7 DEF Safe
  <2> QED
    BY <1>2, <2>1, <2>2, <2>6, <2>8, Zenon DEF TelegramSafe, TelegramWanted
<1> QED
  BY <1>5, <1>6, <1>7 DEF TelegramInv

LEMMA TelegramNext ==
  TelegramInv /\ (Telegram!Next \/ UNCHANGED telegramVars) => TelegramInv'
<1> SUFFICES ASSUME TelegramInv, Telegram!Next \/ UNCHANGED telegramVars PROVE TelegramInv'
  OBVIOUS
<1>1. ASSUME NEW l \in Listeners, Quiet(l) PROVE TelegramInv'
  BY <1>1, QuietKeeps
<1>2. ASSUME NEW l \in Listeners, Telegram!TakeUpdate(l) PROVE TelegramInv'
  BY <1>2, TakeKeeps
<1>3. ASSUME NEW l \in Listeners, Telegram!PumpFetches(l) PROVE TelegramInv'
  BY <1>3, FetchKeeps
<1> QED
  BY <1>1, <1>2, <1>3, TelegramOperations, Zenon
  DEF Telegram!Next, Telegram!Terminated, Telegram!Pumps, Telegram!Process, Quiet

LEMMA TelegramSafety == AdapterSpec => []TelegramInv
<1>1. InitAdapter => TelegramInv
  BY TelegramInvInit DEF InitAdapter
<1>2. TelegramInv /\ [NextAdapter]_<<platform, vars, telegramVars, discordVars>> => TelegramInv'
  BY TelegramNext, Zenon DEF NextAdapter
<1> QED
  BY <1>1, <1>2, PTL DEF AdapterSpec

------------------------------------------------------------------------------
(* What follows for all the adapters.                                      *)

\* Every adapter behind the interface keeps its types.
THEOREM AdapterTyping == AdapterSpec => []AdapterTypes
<1>1. Telegram!TypeOK /\ Discord!TypeOK /\ TypeOK => AdapterTypes
  BY DEF AdapterTypes
<1>2. TelegramInv => Telegram!TypeOK
  BY DEF TelegramInv
<1> QED
  BY <1>1, <1>2, TelegramSafety, DiscordSafety, EmailPart, EmailTyping, PTL

\* An adapter panics only when it was connected again after a Close, or when
\* Telegram's Listen met a Close between its check of ta.api and its use.
THEOREM AdapterPanicHasCause == AdapterSpec => []PanicHasCause
<1>1. TelegramInv /\ DiscordInv => PanicHasCause
  BY DEF TelegramInv, TelegramPanic, DiscordInv, PanicHasCause
<1> QED
  BY <1>1, TelegramSafety, DiscordSafety, PTL

\* With any number of listeners and however slow the reader is, the updates
\* that Telegram will not give again were delivered or are on their way, as
\* long as the adapter was not closed and no listener's context is done.
THEOREM AdapterConfirmedIsSafe == AdapterSpec => []ConfirmedIsSafe
<1>1. ASSUME NEW u \in TelegramWanted, Safe(u)
      PROVE  u \in delivered \cup Telegram!InFlight
  <2>1. CASE u \in delivered
    BY <2>1
  <2>2. CASE u \notin delivered
    <3>1. PICK l \in Listeners : u = held[l] \/ u \in Values(pipe[l])
      BY <1>1, <2>2 DEF Safe
    <3>2. u \in {held[l]} \cup {pipe[l][i] : i \in DOMAIN pipe[l]}
      BY <3>1 DEF Values
    <3> QED
      BY <3>2 DEF Telegram!InFlight
  <2> QED
    BY <2>1, <2>2
<1>2. TelegramInv => ConfirmedIsSafe
  BY <1>1 DEF TelegramInv, TelegramSafe, Undisturbed, ConfirmedIsSafe,
              Telegram!ConfirmedIsSafe, TelegramWanted
<1> QED
  BY <1>2, TelegramSafety, PTL
==============================================================================
