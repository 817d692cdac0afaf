--------------------------- MODULE TelegramAdapter ---------------------------
(***************************************************************************)
(* messaging/telegram_adapter.go: Connect, Listen, Close and the goroutine *)
(* processUpdates that each Listen starts.  All listeners share the one    *)
(* messageChan, which is never closed.                                     *)
(*                                                                         *)
(* The bot library is outside.  Each GetUpdatesChan starts a pump that     *)
(* asks for the updates after its offset, which tells Telegram that those  *)
(* before it need not be given again, and hands them over in order on a    *)
(* channel; StopReceivingUpdates makes the bot's pumps close theirs.       *)
(*                                                                         *)
(* Left out: the contents of the events; Send, which is in Outbound; and   *)
(* a NewBotAPI that fails, which changes nothing.                          *)
(***************************************************************************)
EXTENDS Naturals, Sequences, FiniteSetsExt

CONSTANTS Listeners,
          Cap,          \* capacity of messageChan: 100 in the code
          PumpCap,      \* capacity of a pump's channel
          MaxUpdates,   \* bound: updates that Telegram has for the bot
          MaxBots,      \* bound: successful Connects
          Wanted        \* the updates that the filters keep

VARIABLES
  confirmed,    \* Telegram does not give updates 1..confirmed again
  \* the fields of TelegramAdapter
  api,          \* the bot in use, 0 for nil
  closeChan,    \* whether it is closed
  queued,       \* events in messageChan
  \* the library
  bots,         \* bots are numbered 1..bots
  halted,       \* those told to stop receiving updates
  pump,         \* of each listener: "none", "on", or "ended" with its channel closed
  offset,       \* the last update it handed over
  pipe,         \* its channel
  \* the listeners
  pc,           \* where each Listen, then its goroutine, is
  bot,          \* the bot it listens to
  held,         \* the update it is about to send, 0 for none
  ctxDone,      \* its context is done
  \* history
  panicked,
  raced,        \* a Close ran between Listen's check of ta.api and its use
  delivered     \* updates sent to messageChan

library == <<bots, halted>>
pumps   == <<pump, offset, pipe>>
adapter == <<api, closeChan>>
history == <<panicked, raced, delivered>>
vars    == <<confirmed, adapter, queued, library, pumps, pc, bot, held, ctxDone, history>>

TypeOK ==
  /\ confirmed \in 0..MaxUpdates
  /\ bots \in 0..MaxBots /\ api \in 0..bots /\ halted \subseteq 1..bots
  /\ closeChan \in BOOLEAN /\ panicked \in BOOLEAN /\ raced \in BOOLEAN
  /\ queued \in 0..Cap
  /\ pump \in [Listeners -> {"none", "on", "ended"}]
  /\ pc \in [Listeners -> {"idle", "checked", "select", "sending", "gone"}]
  /\ bot \in [Listeners -> 0..bots] /\ ctxDone \in [Listeners -> BOOLEAN]
  /\ held \in [Listeners -> Wanted \cup {0}]
  /\ delivered \subseteq Wanted
  /\ offset \in [Listeners -> 0..MaxUpdates]
  /\ pipe \in [Listeners -> Seq(1..MaxUpdates)]
  /\ \A l \in Listeners : Len(pipe[l]) <= PumpCap /\ \A i \in DOMAIN pipe[l] : pipe[l][i] <= offset[l]

------------------------------------------------------------------------------
Init ==
  /\ confirmed = 0
  /\ api = 0 /\ closeChan = FALSE /\ queued = 0
  /\ bots = 0 /\ halted = {}
  /\ pump    = [l \in Listeners |-> "none"]
  /\ offset  = [l \in Listeners |-> 0]
  /\ pipe    = [l \in Listeners |-> <<>>]
  /\ pc      = [l \in Listeners |-> "idle"]
  /\ bot     = [l \in Listeners |-> 0]
  /\ held    = [l \in Listeners |-> 0]
  /\ ctxDone = [l \in Listeners |-> FALSE]
  /\ panicked = FALSE /\ raced = FALSE /\ delivered = {}

Goto(l, place) == pc' = [pc EXCEPT ![l] = place]
Running(l)     == pc[l] \in {"select", "sending"}

------------------------------------------------------------------------------
(* The outside.                                                            *)

\* The reader of messageChan takes an event.
Take ==
  /\ queued > 0
  /\ queued' = queued - 1
  /\ UNCHANGED <<confirmed, adapter, library, pumps, pc, bot, held, ctxDone, history>>

CancelContext(l) ==
  /\ ~ctxDone[l] /\ pc[l] # "idle"
  /\ ctxDone' = [ctxDone EXCEPT ![l] = TRUE]
  /\ UNCHANGED <<confirmed, adapter, queued, library, pumps, pc, bot, held, history>>

\* A pump asks for the update after those it has handed over, and gets it.
PumpFetches(l) ==
  LET known == Max({offset[l], confirmed}) IN
  /\ pump[l] = "on" /\ bot[l] \notin halted
  /\ known < MaxUpdates /\ Len(pipe[l]) < PumpCap
  /\ confirmed' = known
  /\ offset'    = [offset EXCEPT ![l] = known + 1]
  /\ pipe'      = [pipe EXCEPT ![l] = Append(@, known + 1)]
  /\ UNCHANGED <<adapter, queued, library, pump, pc, bot, held, ctxDone, history>>

PumpEnds(l) ==
  /\ pump[l] = "on" /\ bot[l] \in halted
  /\ pump' = [pump EXCEPT ![l] = "ended"]
  /\ UNCHANGED <<confirmed, adapter, queued, library, offset, pipe, pc, bot, held, ctxDone,
                 history>>

------------------------------------------------------------------------------
(* The adapter's operations.                                               *)

Connect ==
  /\ api = 0 /\ bots < MaxBots
  /\ bots' = bots + 1 /\ api' = bots'
  /\ UNCHANGED <<confirmed, closeChan, queued, halted, pumps, pc, bot, held, ctxDone, history>>

\* Listen does not hold ta.mu.  One that finds ta.api nil is refused.
ListenChecks(l) ==
  /\ pc[l] = "idle" /\ api # 0
  /\ Goto(l, "checked")
  /\ UNCHANGED <<confirmed, adapter, queued, library, pumps, bot, held, ctxDone, history>>

\* ta.api is read again; a Close in between makes it nil.
ListenCalls(l) ==
  /\ pc[l] = "checked"
  /\ \/ /\ api # 0
        /\ bot'  = [bot EXCEPT ![l] = api]
        /\ pump' = [pump EXCEPT ![l] = "on"]
        /\ Goto(l, "select")
        /\ UNCHANGED panicked
     \/ /\ api = 0
        /\ panicked' = TRUE
        /\ UNCHANGED <<bot, pump, pc>>
  /\ UNCHANGED <<confirmed, adapter, queued, library, offset, pipe, held, ctxDone,
                 raced, delivered>>

\* Mutated: ta.api keeps the bot that was stopped.
CloseKeepsBot ==
  /\ api # 0
  /\ halted' = halted \cup {api}
  /\ panicked' = closeChan
  /\ closeChan' = TRUE
  /\ raced' = (raced \/ \E l \in Listeners : pc[l] = "checked")
  /\ UNCHANGED <<confirmed, queued, bots, api, pumps, pc, bot, held, ctxDone, delivered>>

\* closeChan is made once: closing it again panics.
Close ==
  /\ api # 0
  /\ halted' = halted \cup {api}
  /\ panicked' = closeChan
  /\ closeChan' = TRUE
  /\ api' = IF closeChan THEN api ELSE 0
  /\ raced' = (raced \/ \E l \in Listeners : pc[l] = "checked")
  /\ UNCHANGED <<confirmed, queued, bots, pumps, pc, bot, held, ctxDone, delivered>>

------------------------------------------------------------------------------
(* The goroutine.  Its selects choose at random among the ready cases.     *)

\* Mutated: the send does not look at the context.
SendIgnoresContext(l) ==
  /\ pc[l] = "select" /\ ctxDone[l]
  /\ Goto(l, "gone")
  /\ UNCHANGED <<confirmed, adapter, queued, library, pumps, bot, held, ctxDone, history>>

\* In either select; the update in hand is dropped.
Cancelled(l) ==
  /\ Running(l) /\ ctxDone[l]
  /\ Goto(l, "gone")
  /\ held' = [held EXCEPT ![l] = 0]
  /\ UNCHANGED <<confirmed, adapter, queued, library, pumps, bot, ctxDone, history>>

UpdatesEnd(l) ==
  /\ pc[l] = "select" /\ pipe[l] = <<>> /\ pump[l] = "ended"
  /\ Goto(l, "gone")
  /\ UNCHANGED <<confirmed, adapter, queued, library, pumps, bot, held, ctxDone, history>>

TakeUpdate(l) ==
  /\ pc[l] = "select" /\ pipe[l] # <<>>
  /\ pipe' = [pipe EXCEPT ![l] = Tail(@)]
  /\ \/ /\ Head(pipe[l]) \in Wanted
        /\ held' = [held EXCEPT ![l] = Head(pipe[l])]
        /\ Goto(l, "sending")
     \/ Head(pipe[l]) \notin Wanted /\ UNCHANGED <<held, pc>>
  /\ UNCHANGED <<confirmed, adapter, queued, library, pump, offset, bot, ctxDone, history>>

\* Mutated: an event that finds no room is dropped.
DeliverOrDrop(l) ==
  /\ pc[l] = "sending"
  /\ \/ /\ queued < Cap
        /\ queued' = queued + 1
        /\ delivered' = delivered \cup {held[l]}
     \/ queued = Cap /\ UNCHANGED <<queued, delivered>>
  /\ held' = [held EXCEPT ![l] = 0]
  /\ Goto(l, "select")
  /\ UNCHANGED <<confirmed, adapter, library, pumps, bot, ctxDone, panicked, raced>>

Deliver(l) ==
  /\ pc[l] = "sending" /\ queued < Cap
  /\ queued' = queued + 1
  /\ delivered' = delivered \cup {held[l]}
  /\ held' = [held EXCEPT ![l] = 0]
  /\ Goto(l, "select")
  /\ UNCHANGED <<confirmed, adapter, library, pumps, bot, ctxDone, panicked, raced>>

\* Only the send looks at closeChan; the update in hand is dropped.
SendClosed(l) ==
  /\ pc[l] = "sending" /\ closeChan
  /\ Goto(l, "gone")
  /\ held' = [held EXCEPT ![l] = 0]
  /\ UNCHANGED <<confirmed, adapter, queued, library, pumps, bot, ctxDone, history>>

------------------------------------------------------------------------------
Pumps(l) == PumpFetches(l) \/ PumpEnds(l)

Process(l) == UpdatesEnd(l) \/ TakeUpdate(l) \/ Deliver(l) \/ SendClosed(l)

\* The program is dead, or no goroutine runs and it may stop.
Terminated ==
  /\ panicked \/ \A l \in Listeners : pc[l] \in {"idle", "gone"}
  /\ UNCHANGED vars

Next ==
  \/ Terminated
  \/ /\ ~panicked
     /\ \/ Take \/ Connect \/ Close
        \/ \E l \in Listeners :
             \/ CancelContext(l) \/ Pumps(l)
             \/ ListenChecks(l) \/ ListenCalls(l) \/ Cancelled(l) \/ Process(l)

Spec == Init /\ [][Next]_vars

\* The library's and the adapter's goroutines run, and a select does not
\* for ever pass over a case that is ready.  Nothing is assumed of the reader.
Fairness ==
  \A l \in Listeners :
    /\ WF_vars(~panicked /\ Pumps(l))
    /\ WF_vars(~panicked /\ Process(l))
    /\ WF_vars(~panicked /\ Cancelled(l))

FairSpec == Spec /\ Fairness

------------------------------------------------------------------------------
(* Properties.                                                             *)

InFlight == UNION {{held[l]} \cup {pipe[l][i] : i \in DOMAIN pipe[l]} : l \in Listeners}

\* Telegram does not give again an update that was confirmed: until a Close
\* or a finished context, every wanted one of them was delivered or is on
\* its way, however slow the reader is and however many listeners there are.
ConfirmedIsSafe ==
  ~closeChan /\ (\A l \in Listeners : ~ctxDone[l])
    => \A u \in Wanted : u <= confirmed => u \in delivered \cup InFlight

\* The adapter panics only when it was connected again after a Close, or
\* when a Close ran inside a Listen.
PanicHasCause == panicked => bots > 1 \/ raced

\* A listener ends once its context is done, and once its bot is closed,
\* although nobody may read messageChan: again and again none of those is
\* left running.
ListenersStop ==
  []<>(panicked \/ \A l \in Listeners : Running(l) => ~ctxDone[l] /\ bot[l] \notin halted)
==============================================================================
