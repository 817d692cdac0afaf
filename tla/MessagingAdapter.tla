-------------------------- MODULE MessagingAdapter --------------------------
(***************************************************************************)
(* messaging/adapter.go: the MessagingAdapter interface.  A program that   *)
(* listens for messages holds one adapter behind it; which of the adapters *)
(* it is is chosen when it is made and decides what every call does.  The  *)
(* parts of the other adapters never move.                                 *)
(*                                                                         *)
(* The email adapter's state and properties are here under their own       *)
(* names; Telegram! and Discord! name those of the other two.              *)
(***************************************************************************)
EXTENDS EmailPoller, Sequences

CONSTANTS PumpCap, MaxUpdates, MaxBots, MaxMessages, MaxSessions

ASSUME AdapterBoundsAssumption ==
  PumpCap \in Nat \ {0} /\ {MaxUpdates, MaxBots, MaxMessages, MaxSessions} \subseteq Nat

VARIABLES
  platform,     \* what PlatformName returns
  \* TelegramAdapter
  confirmed, api, telegramClosed, telegramQueued, bots, halted, pump,
  offset, pipe, telegramPc, bot, held, telegramCtxDone,
  telegramPanicked, raced, delivered,
  \* DiscordAdapter
  session, discordClosed, discordQueued, sessions, opened, handler,
  discordPanicked

Telegram == INSTANCE TelegramAdapter WITH
  closeChan <- telegramClosed, queued <- telegramQueued,
  pc <- telegramPc, ctxDone <- telegramCtxDone, panicked <- telegramPanicked,
  Wanted <- Wanted \cap (1..MaxUpdates)

Discord == INSTANCE DiscordAdapter WITH
  closeChan <- discordClosed, queued <- discordQueued, panicked <- discordPanicked

InitAdapter ==
  /\ platform \in {"email", "telegram", "discord"}
  /\ Init /\ Telegram!Init /\ Discord!Init

telegramVars ==
  <<confirmed, api, telegramClosed, telegramQueued, bots, halted, pump, offset,
    pipe, telegramPc, bot, held, telegramCtxDone, telegramPanicked,
    raced, delivered>>

discordVars ==
  <<session, discordClosed, discordQueued, sessions, opened, handler, discordPanicked>>

NextAdapter ==
  /\ UNCHANGED platform
  /\ \/ platform = "email"    /\ Next          /\ UNCHANGED <<telegramVars, discordVars>>
     \/ platform = "telegram" /\ Telegram!Next /\ UNCHANGED <<vars, discordVars>>
     \/ platform = "discord"  /\ Discord!Next  /\ UNCHANGED <<vars, telegramVars>>

AdapterSpec ==
  /\ InitAdapter
  /\ [][NextAdapter]_<<platform, vars, telegramVars, discordVars>>
  /\ Fairness /\ Telegram!Fairness /\ Discord!Fairness

------------------------------------------------------------------------------
(* Properties, besides those of EmailPoller.                               *)

\* The state of every adapter keeps its types.
AdapterTypes == TypeOK /\ Telegram!TypeOK /\ Discord!TypeOK

\* Until a Close or a finished context, an update that Telegram will not
\* give again was delivered or is on its way.
ConfirmedIsSafe == Telegram!ConfirmedIsSafe

\* An adapter panics only when it was connected again after a Close, or
\* when Telegram's Listen met a Close.
PanicHasCause == Telegram!PanicHasCause /\ Discord!PanicHasCause

\* No goroutine of an adapter outlives its purpose, although nobody may read
\* its channel: email's and Telegram's end with their context, Telegram's
\* also with their bot, and Discord's handlers with a Close.
ListenersStop == CancelStops /\ Telegram!ListenersStop /\ Discord!HandlersEnd

\* Discord's messages arrive while the reader goes on reading.
MessagesArrive == Discord!MessagesArrive
==============================================================================
