--------------------------- MODULE DiscordAdapter ---------------------------
(***************************************************************************)
(* messaging/discord_adapter.go: Connect, Close, and messageCreate, which  *)
(* the library runs in a goroutine of its own for each message it gets     *)
(* while the session is open.  All handlers send to the one messageChan,   *)
(* which Listen returns at any time and which is never closed.             *)
(*                                                                         *)
(* Left out: the contents of the events, with the look-up of the channel's *)
(* name; messages that the filters drop, whose handlers return at once;    *)
(* Send, which is in Outbound; ListChannels, which changes nothing; and a  *)
(* discordgo.New that fails, which changes nothing either.                 *)
(***************************************************************************)
EXTENDS Naturals

CONSTANTS Cap,          \* capacity of messageChan: 100 in the code
          MaxMessages,  \* bound: messages that the session ever gets
          MaxSessions   \* bound: Connects that make a session

VARIABLES
  \* the fields of DiscordAdapter
  session,      \* the session in use, 0 for nil
  closeChan,    \* whether it is closed
  queued,       \* events in messageChan
  \* the library
  sessions,     \* sessions are numbered 1..sessions
  opened,       \* those whose connection to Discord is open
  handler,      \* where the handler of each message is
  panicked      \* closeChan was closed twice: the program is dead

adapter == <<session, closeChan>>
vars    == <<adapter, queued, sessions, opened, handler, panicked>>

Messages == 1..MaxMessages

TypeOK ==
  /\ sessions \in 0..MaxSessions /\ session \in 0..sessions
  /\ opened \subseteq 1..sessions
  /\ closeChan \in BOOLEAN /\ panicked \in BOOLEAN
  /\ queued \in 0..Cap
  /\ handler \in [Messages -> {"none", "sending", "sent", "dropped"}]

------------------------------------------------------------------------------
Init ==
  /\ session = 0 /\ closeChan = FALSE /\ queued = 0
  /\ sessions = 0 /\ opened = {}
  /\ handler = [m \in Messages |-> "none"]
  /\ panicked = FALSE

\* The reader of messageChan takes an event.
Take ==
  /\ queued > 0
  /\ queued' = queued - 1
  /\ UNCHANGED <<adapter, sessions, opened, handler, panicked>>

\* The open session gets its next message and starts its handler.
MessageCreate(m) ==
  /\ opened # {} /\ handler[m] = "none"
  /\ \A n \in Messages : n < m => handler[n] # "none"
  /\ handler' = [handler EXCEPT ![m] = "sending"]
  /\ UNCHANGED <<adapter, queued, sessions, opened, panicked>>

------------------------------------------------------------------------------
(* The adapter's operations, each under d.mu from end to end.              *)

\* Without a session; with one Connect returns nil and changes nothing,
\* whether the session was ever opened or not.
ConnectOk ==
  /\ session = 0 /\ sessions < MaxSessions
  /\ sessions' = sessions + 1 /\ session' = sessions'
  /\ opened' = opened \cup {sessions'}
  /\ UNCHANGED <<closeChan, queued, handler, panicked>>

\* d.session was set before Open and stays.
OpenFails ==
  /\ session = 0 /\ sessions < MaxSessions
  /\ sessions' = sessions + 1 /\ session' = sessions'
  /\ UNCHANGED <<closeChan, queued, opened, handler, panicked>>

\* closeChan is made once: closing it again panics, with the session open.
Close ==
  /\ session # 0
  /\ panicked' = closeChan
  /\ closeChan' = TRUE
  /\ \/ closeChan /\ UNCHANGED <<session, opened>>
     \/ ~closeChan /\ session' = 0 /\ opened' = opened \ {session}
  /\ UNCHANGED <<queued, sessions, handler>>

------------------------------------------------------------------------------
(* The handlers' select.                                                   *)

HandlerSends(m) ==
  /\ handler[m] = "sending" /\ queued < Cap
  /\ handler' = [handler EXCEPT ![m] = "sent"]
  /\ queued' = queued + 1
  /\ UNCHANGED <<adapter, sessions, opened, panicked>>

\* Mutated: the handler gives up when there is no room.
HandlerGivesUp(m) ==
  /\ handler[m] = "sending" /\ (closeChan \/ queued = Cap)
  /\ handler' = [handler EXCEPT ![m] = "dropped"]
  /\ UNCHANGED <<adapter, queued, sessions, opened, panicked>>

\* Mutated: the send does not look at closeChan once there is room.
HandlerWaitsForRoom(m) ==
  /\ handler[m] = "sending" /\ closeChan /\ queued < Cap
  /\ handler' = [handler EXCEPT ![m] = "dropped"]
  /\ UNCHANGED <<adapter, queued, sessions, opened, panicked>>

HandlerQuits(m) ==
  /\ handler[m] = "sending" /\ closeChan
  /\ handler' = [handler EXCEPT ![m] = "dropped"]
  /\ UNCHANGED <<adapter, queued, sessions, opened, panicked>>
------------------------------------------------------------------------------
HandlerEnds(m) == HandlerSends(m) \/ HandlerQuits(m)

\* The program is dead, or nobody uses the adapter and it may stop.
Terminated ==
  /\ panicked \/ \A m \in Messages : handler[m] # "sending"
  /\ UNCHANGED vars

Next ==
  \/ Terminated
  \/ /\ ~panicked
     /\ \/ Take \/ ConnectOk \/ OpenFails \/ Close
        \/ \E m \in Messages : MessageCreate(m) \/ HandlerEnds(m)

Spec == Init /\ [][Next]_vars

\* Some handler that can go on does.  Nothing is assumed of the reader.
Fairness == WF_vars(~panicked /\ \E m \in Messages : HandlerEnds(m))

FairSpec == Spec /\ Fairness

------------------------------------------------------------------------------
(* Properties.                                                             *)

\* The adapter panics only when it was connected again after a Close.
PanicHasCause == panicked => sessions > 1

\* While the adapter is not closed every message reaches the reader,
\* however far behind, as long as it goes on reading.
MessagesArrive ==
  []<>(queued = 0) =>
    []<>(closeChan \/ \A m \in Messages : handler[m] \in {"none", "sent"})

\* After a Close no handler stays behind, although nobody may read
\* messageChan.
HandlersEnd ==
  []<>(closeChan => panicked \/ \A m \in Messages : handler[m] # "sending")
==============================================================================
