# Verification of the Vassago SDK

TLA+ models of the SDK's client and messaging packages, TLC runs that check
them on small instances, and TLAPS proofs of what matters most. Line numbers
refer to the sources under `src/`.

## The system

The SDK is the client side of the Vassago daemon, in Go. The daemon itself is
not in the repository: it is part of the environment in every model.

| component | state it keeps | operations | what is hard |
|---|---|---|---|
| Resilient client (`client/reconnect.go`) | `rc.client`, `rc.closed`, under `rc.mu` | eight RPC wrappers, `connect`, `reconnect`, `getClient`, `Close` | callers overlap; one caller's reconnection closes the connection others use; outages; lost replies; `Close` in the middle |
| gRPC wrappers (`client/client.go`) | the connection | `Connect`, `Close`, one method per RPC | none of their own: one request, one reply |
| Agent session (`client/agent.go`) | `registered`, `cancelHB`, `done`, `streamCancel`, under `as.mu`; a heartbeat goroutine; a reader goroutine per subscription | `Register`, `Subscribe`, `Close` | `Close` works between two critical sections; the goroutines outlive the calls that start them |
| Hot block cache (`client/hotblock_cache.go`) | the block and when it was computed | `Update`, reads | the order in which event callbacks update it |
| Chat client (`client/chat_client.go`) | none; a goroutine per stream | `Chat`, `ChatStream` | a goroutine that blocks on a bounded channel |
| iMessage adapter | `connected`, `lastROWID`, `stopPolling` | `Connect`, `Listen`, poll, `Send`, `Close` | a poll cut short, several listeners, `Close` while the poller is blocked, reuse after `Close` |
| Email adapter | `connected`, `lastSeenUID`, `stopChan` | the same | the position advances per batch |
| Telegram adapter | `api`, `closeChan`, `messageChan` | `Connect`, `Listen`, `Send`, `Close` | reuse after `Close`; a field read without its lock |
| Discord adapter | `session`, `closeChan`, `messageChan` | `Connect`, handler, `Send`, `Close` | reuse after `Close`; a session kept after a failed open |
| Formatting (`messaging/format`) | none | `FormatMessageForPlatform`, `SplitMessageForPlatform` | lengths at the boundaries |
| Null client, bearer token, interfaces, protocol definitions | none | constants and declarations | nothing |

The agent program wires them together: the agent session calls the daemon
through the client, its `OnEvent` callback updates the hot block cache, and the
adapters hand messages from the platforms to the agent over channels.

What makes each correct:

* Resilient client: nobody is handed a closed connection; no connection is
  leaked; concurrent callers do not disturb each other; a call asks at most
  twice and reports success only if the daemon executed it; calls return; the
  client recovers; a closed client stays closed.
* Agent session: a registered session has its heartbeat running; after `Close`
  no heartbeat is sent and no stream is live; `Close` returns; nothing panics.
* Cache and subscription: the channel keeps the events' order; an event that
  it drops still brings the cache up to date, and a callback that fails costs
  no more than its own event.
* Chat: the reply is what the events make of it, the channel carries them all;
  the goroutine comes back to its stream.
* Pollers: no allowed message that was read is lost; one is repeated only for a
  reason; a cancelled or closed listener stops.
* Chat platforms: what the platform will not give again is not lost; panics and
  refusals have a cause that can be named; goroutines end.
* Sending: the pieces of a long text make it up in order, within the limit, and
  reach the platform in order and together.

## Modules

| module | what it is |
|---|---|
| `AtMostTwice` | abstract: what the caller of a retried operation may rely on |
| `ResilientClient` | `client/reconnect.go` with the parts of `client/client.go` it uses |
| `ResilientClientProofs` | theorems about `ResilientClient` |
| `MCResilient` | the instance of `ResilientClient` the runs use |
| `AgentSession` | `client/agent.go` |
| `AgentSessionProofs` | theorems about `AgentSession` |
| `MCAgent` | the instance of `AgentSession` the runs use |
| `IMessagePoller` | `messaging/imessage_adapter.go` |
| `IMessagePollerProofs` | theorems about `IMessagePoller` |
| `ReopenedFeed` | abstract: `MessageFeed` when the source may be opened again; implemented by `IMessagePoller` |
| `MCIMessage` | the instance of `IMessagePoller` the runs use |
| `MessageFeed` | abstract: at-least-once delivery from a source of messages |
| `EmailPoller` | `messaging/email_adapter.go`; implements `MessageFeed` |
| `EmailPollerProofs` | theorems about `EmailPoller` |
| `TelegramAdapter` | `messaging/telegram_adapter.go` without `Send` |
| `DiscordAdapter` | `messaging/discord_adapter.go` without `Send` |
| `MessagingAdapter` | `messaging/adapter.go`: one of the three adapters above behind the interface |
| `MessagingAdapterProofs` | theorems about the adapters behind the interface |
| `Outbound` | `Send` of Discord, Telegram and iMessage with `messaging/format/format.go` |
| `OutboundProofs` | theorems about `Outbound` |
| `MCOutbound` | the texts of the run |
| `EventStreams` | the readers of server streams: `Subscribe`'s goroutine with its callback and the hot block cache, `ChatStream`'s goroutine, `Chat` |
| `EventStreamsProofs` | theorems about `EventStreams` |
| `MCEventStreams` | the kinds of streams and the events of the run |

Operators whose comment begins with "Mutated:" are wrong versions of the
definition that follows them. No specification uses them: they are there to
show that each property notices the mistake it is about.

### ResilientClient

A process is one invocation of an operation, or of `NewResilientClient`
(`Builder`). The eight operations have the same body around different RPCs and
are one model. State and code:

* `client`, `closed` are the fields; connections are the numbers `1..dials` in
  the order they were dialled, 0 is nil. `open` are those whose `Close` was not
  called; `broken` are those that have lived through an outage.
* `pc`, `round`, `held`, `attempt`, `ctxDone`, `result` are each process's
  control point, which of its two tries it is in, its local `c`, the counter of
  `connect`'s loop, whether its context is done, and what it returned.
* Each critical section of `rc.mu` is one action: `GetClient`/`GetClientFails`,
  `ReconnectRefused`/`TearDown`, `Install`, `Close`. Between them a process
  sends its request, waits for the reply, dials, or sleeps in the backoff.
* A request is executed by `Execute`, at any time after it was sent, even when
  its call has given up; a reply may be lost. An RPC on a broken or closed
  connection, or with a context that is done, may end with an error that
  `isConnectionError` accepts. On a broken connection it may also go well:
  gRPC may have repaired the channel. Any wait may also end with another error
  (the daemon refuses, a deadline passes), which is returned as it is.

Abstracted: the contents of requests and replies, the length of the backoff
(the timer may fire at any time), TLS and credentials. `Connect` is one step:
the connection whose health check fails is closed before anyone sees it. It
succeeds only while the daemon is up, and may fail at any time (`DialFail`): a
certificate that cannot be read, an address that cannot be parsed or refused
credentials do not need an outage.

### AgentSession

A process is one invocation of `Register`, `Subscribe` or `Close`. `mu` is
explicit, because `Register` and `Subscribe` keep it during their RPC. `Close`
is called and waits for the lock (`CloseStart`), reads the fields
(`CloseReads`), cancels (`CloseCancels`), waits for `done` (`CloseWaits`) and
clears `registered` (`CloseClears`). `heartbeat[h]` is the
goroutine started by registration `h`, `reader[s]` the one started by
subscription `s`. Closing `done` a second time sets `panicked`, after which
nothing moves. A reader may still deliver an event after its stream was
cancelled: the event may have been there already.

### IMessagePoller

A listener is one invocation of `Listen`: its context, goroutine and channel.
The database is a number of rows, of which `Wanted` pass the query's `WHERE`
and the recipient filter. `lastROWID`, `connected` and `stopped`
(`stopPolling` closed) are the fields; `opened` numbers the connections to the
database, so that a poll that took its querier before a `Close` fails.
Each critical section is one action: a poll copies the fields (`PollStarts`),
queries (`QueryOk`, `QueryFails`), and for each row sends (`SendRow`,
`SendCancelled`) and then moves `lastROWID` (`MarkRow`). A query reads some of
the rows that are due (`Due`): it skips a row that it cannot scan and takes an
error in the middle of the result for its end. `sent`, `base`, `fellBack`,
`overlapped` and `unread` (the rows that a query failed to read before one it
did read) are history: no action reads them except to keep them.
`ReopenedFeed` is what its readers may count on: between two Connects
`lastROWID` moves forward only, over what was sent and what is `lost`, here the
`unread` rows, and it goes back only at a Connect that could not read the last
row. The Messages database and the reader of the channel are the environment.
`ListChannels` changes nothing in the adapter; `Send` is in `Outbound`.

### EmailPoller and MessageFeed

The shape is that of the iMessage adapter, with the differences the code has.
A poll copies `lastSeenUID` (`PollStarts`), fetches outside the lock (`FetchOk`,
`FetchFails`), sends the wanted messages in any order (`SendMail`) and moves
`lastSeenUID` once, after the whole batch and only upwards (`BatchDone`). A
context that is done during the batch ends the poll and leaves `lastSeenUID`
(`SendCancelled`); the messages already sent will be sent again, and the history
`cut` keeps them. A `Close` and another `Connect` leave `lastSeenUID` too, and
leave `stopChan` closed. The source has only an interface and a failing stub for the
mailbox; the model lets the fetcher answer as the tests' fetcher does, or fail.

`MessageFeed` says what a reader may count on: only wanted messages that
arrived are delivered, and the position moves only forward and only over what
was delivered. It allows a message to be delivered twice.

### TelegramAdapter

A listener is a `Listen` and its `processUpdates` goroutine. `Listen` does not
hold the lock: its check of `ta.api` (`ListenChecks`) and its use
(`ListenCalls`) are two actions, with a nil dereference between them as the
outcome of a `Close` in the middle. The bot library is outside: each
`GetUpdatesChan` has a pump that asks for the updates after its offset, which
confirms the earlier ones to Telegram (`PumpFetches`), and puts them in a
bounded channel; `StopReceivingUpdates` makes it close that channel
(`PumpEnds`). Two listeners have two pumps and compete for the updates. The
goroutine's two selects are `Cancelled`, `UpdatesEnd`, `TakeUpdate`, `Deliver`
and `SendClosed`; only the send looks at `closeChan`. A second `Close` after a
second `Connect` closes `closeChan` again and sets `panicked`.

### DiscordAdapter

`Connect` and `Close` hold the lock from end to end and are one action each:
`ConnectOk`, `OpenFails` (the session stays), `Close`. With a session, open or
not, `Connect` returns nil and changes nothing. The library calls
`messageCreate` in a goroutine per message (`MessageCreate`); each waits in the
select of `HandlerSends` and `HandlerQuits`, so handlers may overtake each
other.

### MessagingAdapter

A program holds one adapter behind the interface; `platform` is which. The
email adapter's state is the module's own (`EXTENDS EmailPoller`), Telegram's
and Discord's are instances with renamed variables. A step is a step of the
chosen adapter and leaves the others alone.

### Outbound

A text is its length and the places of its newlines; a chunk is a slice of it
and whether the continuation prefix stands before it. `SendStarts` takes the
mutex (Discord and Telegram keep it to the end, iMessage does not) and either
makes the text one chunk or starts `splitMessage`, whose loop is `Cut` (at the
last newline of the window, or at the limit) and `CutLast`. Each chunk is then
accepted by the platform or fails, by its fault or because it is longer than the
limit; an error ends the `Send` and what was sent stays.

### EventStreams

A stream is a subscription, a `ChatStream` or a `Chat`. A subscription's reader
receives the announcement of a version of the daemon's memory (`EventRecv`),
runs `OnEvent`, which reads the hot block (`CallbackFetches`) and updates the
cache (`CacheUpdate`), or fails to read it or is nil (`CallbackSkips`, which
leaves the cache as it is; the history `missed` keeps the event), and then puts
the event in its channel or drops it (`EventForward`). `ChatStream`'s reader
forwards every event (`ChatRecv`, `ChatForward`) with a blocking send, and adds
an error event when the stream fails (`ChatFails`). `Chat` folds the events into
its reply (`Collect`). The daemon, the readers of the channels and the end of a
stream are outside.

## Runs

| run | instance | shows |
|---|---|---|
| `resilient` | 2 overlapping calls, 1 retry, 1 outage | `InstalledIsOpen`, `FreshIsPrivate`, `DisconnectedHasCause`, `CalmCallsDoNotInterfere`, and that the client implements `AtMostTwice` |
| `resilient_sequential` | 2 calls, one at a time, unlimited retries, 1 outage | `NoOrphan`, `CallsReturn`, `HealsWhenUnlimited`, `NoRequestAfterClose` |
| `resilient_close_reconnects` | 1 call | violation: a connection is dialled after `Close` |
| `resilient_stays_down` | 2 calls, one at a time | violation: a call is refused for want of a connection |
| `agent` | 4 operations of any kind | `RegisteredHasHeartbeat`, `GracefulOnce`, `CloseReturns` |
| `agent_panics` | 4 operations | violation: `done` is closed twice |
| `agent_subscriptions` | 3 operations | violation: a stream that no `Close` can end |
| `imessage` | 2 listeners, 3 rows (the second filtered), channels of 1, 2 Connects, any row unread | `ChannelInOrder`, `HandedOverOnce`, and that the poller implements `ReopenedFeed` (hence `NothingSkipped`) |
| `imessage_stops` | 1 listener, the same otherwise | `CancelStops`, `CloseStopsReaders` |
| `adapters` | each of email, Telegram and Discord; 2 listeners, channels of 1, 2 messages, all wanted, a pump channel of 1, 2 bots; Discord with 3 messages and 2 sessions | `RepeatsHaveCause`, `ConfirmedIsSafe`, `PanicHasCause`, `ImplementsFeed`, `ArrivedIsDelivered`, `ListenersStop`, `MessagesArrive` |
| `outbound` | 2 senders on each platform; limit 3, prefix 1; every text of up to 4 bytes, and of 7 bytes with at most one newline | `WellCut`, `DeliveredInOrder`, `ChunksTogether`, `FailureHasCause`, `SendsReturn` |
| `streams` | 2 streams, one a subscription and the other of any kind; channels of 1, 3 versions, answers of up to 2 events with 2 session ids | `StreamsInOrder`, `CacheCatchesUp`, `ChatAgrees`, `ReadersGoOn` |

Why the bounds are enough. A call uses at most two connections, and two calls
are what it takes for one to close, overwrite or lose the other's; with the
constructor there are three diallers. One outage divides the connections into
old and new. One retry makes `connect` loop once, which tells the first, the
repeated and the last attempt apart. In the agent session two registrations
and two Closes, or one of each with two subscriptions, are the shortest
sequences with a stale snapshot, a closed channel or a displaced stream. In
the iMessage adapter a batch of two rows can be cut short between them, a
filtered row lies in the gap, a query can fail to read the first of two rows
and read the second, a channel of one is full after every event, and
a second Connect has stale polls of the first; the listeners' order of arrival
does not matter, so their names are a symmetry of the safety run.

In `adapters`, two email messages make a batch that can be cut in the middle,
and a second listener can be ahead of, behind or after the first. Telegram's
updates can each be in a pump's channel, in a listener's hands or waiting for
room, in either listener; the second update is asked for only by confirming the
first. Two bots or sessions are a `Connect` after a `Close`. Three Discord
messages are one in the channel and two handlers competing for its place. In
`outbound`, 4 bytes with a limit of 3 is the shortest text that is cut, in every
arrangement of newlines; 7 bytes is the shortest that is cut twice although it
has no newline, so that there is a full slice that is neither the first nor the
last. A `Send` may be the last thing the program does, and a text may be refused
for good: this run does not look for deadlock. In `streams`, three versions
overflow a channel of one while the cache goes on, a callback may fail before,
after or between two that succeed, two subscriptions share one cache, and two
answers tell the first session id from the last and an error that ends the
answer from one that does not.

`NoOrphan` holds only for calls that do not overlap (`MaxConcurrent = 1`). With
two overlapping reconnections the connection installed first is overwritten
and stays open for ever; the code says nothing about it, so there is no
violation run for it, but it is a leak.

### Findings

* `Close` does not stop a reconnection under way (`reconnect.go:288`).
* `getClient` does not reconnect (`reconnect.go:104`): once a reconnection has
  failed, or the context of the call that made it was cancelled, the client
  stays disconnected for good. A caller that cancels its own context is enough,
  with the daemon up all the time.
* A session that is registered and closed twice panics (`agent.go:184`).
* A second `Subscribe` overwrites `streamCancel` before its RPC
  (`agent.go:103`). Whether it then succeeds or fails, the first stream goes on
  and no `Close` can end it, although "Call Close() to unsubscribe"
  (`agent.go:93`). `CloseUnsubscribes` asks that, when no operation is under way,
  a live stream be the one that the next `Close` cancels; the stream of a
  `Subscribe` between `Close`'s two critical sections breaks it as well, since
  the session is no longer registered.

Also seen while modelling, with no run of their own: `stopPolling` is made
once, so after a `Close` and another `Connect` every new listener ends as soon
as its `select` picks that case (`imessage_adapter.go:296`); a `Connect` that
cannot read the last row replays the database from row 0, although "don't
process old messages" is its aim (`imessage_adapter.go:263`); two listeners at
once both deliver each message; a poller blocked on a full channel does not
notice `Close`.

* With `MaxRetries = 0` and a key or a certificate that is refused for good,
  `connect`'s loop (`reconnect.go:65`) never ends unless the context does, and
  neither does `NewResilientClient`, with the daemon up all the time.
* A row of the Messages database that cannot be scanned is skipped without a
  word, and so is the rest of a result that breaks off
  (`imessage_adapter.go:135`; `rows.Err` is not asked). A skipped row is lost as
  soon as a later one is delivered.
* When the callback's `GetHotBlock` fails, the cache keeps the old block until
  the next event whose callback succeeds (`client.go:238`); the event itself
  reaches the channel all the same.
* A text longer than the limit with no newline in a window is cut into full
  slices, and every slice but the first gets the prefix "(continued) ", so it is
  longer than the limit (`format.go:170`). Discord and Telegram refuse it:
  the beginning of the text is sent and `Send` returns an error.
  `format_test.go:135` allows for 15 bytes more. `FailureHasCause` says that
  this is the only failure of the adapters' own making.
* Two iMessage `Send`s of long texts may mix their chunks
  (`imessage_adapter.go:419`); Discord's and Telegram's cannot
  (`ChunksTogether`). Slices are cut at bytes and may divide a character; the
  model does not tell characters from bytes.
* `closeChan` of Telegram and Discord is made once: after `Close` and another
  `Connect`, messages may be dropped at random and the next `Close` panics.
* A cancelled Telegram `Listen` leaves the library's pump running
  (`telegram_adapter.go:117`); what it takes is confirmed and nobody reads it.
  `ConfirmedIsSafe` has that as its exception.
* Discord's `Connect` keeps a session whose `Open` failed
  (`discord_adapter.go:74`), and the next `Connect` finds it and returns nil, so
  it reports success without having established anything, against its comment
  (`discord_adapter.go:59`) and the interface's (`adapter.go:45`). Two
  sequential calls show it, so it has no run.
* Discord's handlers may deliver messages out of order.
* Two subscriptions of one program may leave an older block in the cache until
  the next event (`hotblock_cache.go:43`); `CacheCatchesUp` is about one.
* `ChatStream`'s goroutine waits for ever for a reader that has stopped
  (`chat_client.go:159`).

### Fairness

`ResilientClient`: weak fairness of each process's own steps (Go runs every
goroutine and every RPC on a live connection ends) and of the delivery of a
request over a connection that has seen no outage, while the daemon is up;
strong fairness of the context branch of the backoff's `select`, which chooses
at random among ready cases. Nothing is assumed of the daemon: `CallsReturn`
and `HealsWhenUnlimited` say in their premise that it comes back for good, and,
where retries are unlimited, that a process which dials again and again comes to
succeed (`ConnectSucceeds`): the certificate and the key are in order. With a
limit `CallsReturn` needs no such thing.
No caller need call, and nobody need call `Close`.

`AgentSession`: weak fairness of the steps of a `Close` and of the end of a
Heartbeat RPC, which has a timeout; strong fairness of the loop's context
branch. Each operation takes the lock at most twice, so weak fairness is enough
for `Close` to get it. Nothing says that the RPC of a `Register` or a
`Subscribe`, made with the lock held, ends: `CloseReturns` has in its premise
that the lock comes free again and again, and is about every `Close` from its
wait for the lock on. No fairness of the reader goroutines and none of the
ticker.

`IMessagePoller`: weak fairness of a poll under way, strong fairness of the
select's stop cases. The reader of a channel may stop; `CloseStopsReaders` has
in its premise that there is room again and again.

`MessagingAdapter` has the fairness of each adapter's module. `EmailPoller`: as
for `IMessagePoller`; `ArrivedIsDelivered` has in its premise that the fetcher
answers again and again. `TelegramAdapter`: weak fairness of the library's
pumps, of the goroutine's own steps and of its context case, which stays ready.
`DiscordAdapter`: some handler that can go on does; a handler that others
overtake for ever is not excluded. `Outbound`: weak fairness of a `Send` that
was called, hence of the platform's answer. `EventStreams`: weak fairness of what
a reader does once an event has come; nothing says that events come or that a
stream ends. Nowhere is anything assumed of the readers of the channels, nor of
the callers of `Connect`, `Close` or cancel; where a property needs a reader,
its premise says so (`MessagesArrive`, `ReadersGoOn`).

## Proofs

`ResilientClientProofs` proves, for any set of calls, any `MaxRetries`
(0 included) and any number of outages:

* `Typing`: `TypeOK`, by induction over the actions. It bounds `connect`'s
  counter by `MaxRetries` and numbers connections by their dialling.
* `ConnectionsOwned`: `InstalledIsOpen` and `FreshIsPrivate`, which are
  inductive together. A fresh connection's number is larger than any other, so
  no field and no other process has it, and the connection that `TearDown` or
  `Close` closes is never one about to be installed. `OwnershipKept` carries
  the ten steps that touch only their own process.
* `DialledIsPrivate`: `FreshIsPrivate` by itself, from `ConnectionsOwned`.
* `DisconnectionHasCause`: `DisconnectedHasCause`, strengthened by
  `ResultsFinal` (a result is final and the constructor stays within
  `connect`), from ownership: what `Install` installs is never nil.
* `CalmCallsIndependent`: `CalmCallsDoNotInterfere`, strengthened to
  `CalmState`: without a disturbance the constructor may dial several times but
  no call ever does, and once it has dialled there is exactly one connection,
  number 1, healthy and in every running call's hands, so no RPC can be
  interrupted.
* `Refinement`: the client implements `AtMostTwice`, under the mapping
  `CallPhase`, `CallAsked`, `CallApplied`, `CallOutcome`, with the invariant
  `RequestsOrdered` (requests are sent in order, each once, and a process
  reconnects only in its first round).
* `NoOrphanOneAtATime` and `SequentialLeavesNoOrphan`: `NoOrphan`, of every
  execution whose calls do not overlap (`OneAtATime`, a hypothesis about the
  program that uses the client), and of the specification when `Begin` itself keeps
  them apart (`MaxConcurrent <= 1`, the run's case). `NoOrphan` is not inductive:
  the one process that is in `connect` must be known to have torn `rc.client` down
  (`EmptyWhileDialling`), so that `Install` overwrites nothing. Without the
  hypothesis the property is false (end of "Runs").
* `ClosedSendsNothing`: `NoRequestAfterClose`. Once the client is closed, a call at
  or before its first `getClient` has sent nothing (`RequestsOrdered`), and stays
  among idle, `getClient` and returned (`ShutOut`), whatever is installed.
* `QuietCloseIsFinal` and `QuietCloseLeavesNothing`: how much of the comment "No
  reconnection will be attempted" is true. From a moment at which the client is
  closed and no process is in `connect` (`Settled`), nothing is dialled again, with
  any number of callers; and if calls do not overlap, such a Close leaves no
  connection open. What the run `resilient_close_reconnects` shows is therefore
  the only way.
* `UnlimitedRetriesServe`: how much of `getClient`'s "reconnecting if necessary" is
  true. With `MaxRetries = 0`, calls that do not overlap and contexts that stay
  alive, no call is refused for want of a connection, whatever outages there are:
  nobody gives up (`Served`), so by `DisconnectedHasCause` somebody would have to be
  in `connect` while another is in `getClient`. The run `resilient_stays_down` has a
  limit and contexts that end.

The assumptions are those of the module: `Builder` is not a call and the
bounds are natural numbers.

`AgentSessionProofs` proves, for any set of operations (the only assumption is
that nil, `None`, is not one of them):

* `AgentTyping`: `TypeOK`, by induction over the actions.
* `RegistrationAlive` and `GracefulShutdown`: `RegisteredHasHeartbeat` and
  `GracefulOnce`, from the invariant `AgentInv`. Neither is inductive: a stale
  snapshot in a Close must be known to name a loop that was started
  (`CancelsKnown`), a cancelled loop of a registered session must have a Close
  that has yet to clear `registered` (`CancelledByCloser`), and a closed `done`
  must have a loop that exited (`DoneKnown`). `AgentInvKept` carries the steps
  that neither start nor cancel nor end a loop.
* `LoneSubscriptionsEnd`: `CloseUnsubscribes`, which the run `agent_subscriptions`
  refutes, holds of every execution in which Subscribe runs only outside every
  Close and when no earlier stream lives (`SubscribesAlone`). Then `streamCancel` is
  that of the only live stream, every Close under way has copied it, and a Close
  that has cancelled leaves nothing alive (`StreamInv`). The two conditions are
  the two ways in which a stream escapes.

`IMessagePollerProofs` proves, for any listeners, rows, filter and capacity:

* `IMessageTyping`: `TypeOK`.
* `IMessageNothingSkipped`: `NothingSkipped`: a wanted row that `lastROWID` has
  passed was sent to somebody or a query failed to read it (`unread`). Its
  induction needs to know what a poll has in hand (`InHand`): the wanted rows up
  to `since` were sent by somebody or are unread, and those after it, up to any
  row of the batch, are in the batch or unread.
  That makes a stale poll harmless when it moves `lastROWID`.
* `IMessageImplementsFeed`: the refinement of `ReopenedFeed`. A Connect is an
  opening, the send of a row a delivery, and `InHand` is what makes the update of
  `lastROWID` an advance; every other step is a stutter. It implies `NothingSkipped`,
  which the run therefore does not list.
* `IMessageChannelInOrder` and `IMessageHandedOverOnce`: what was sent is below
  `lastROWID`, except by the poll that is about to move it, and below the
  `since` of its listener's poll (`Ahead`); without overlap one poll runs at a
  time and is above everything sent (`Alone`).

`EmailPollerProofs` proves, for any listeners, mailbox, filter and capacity:

* `EmailTyping`: `TypeOK`.
* `EmailNothingLost`: below `lastSeenUID` every wanted message was sent to
  somebody. Each message up to the highest UID of a batch was sent or is still in
  it (`InHand`), because the batch began at a position `lastSeenUID` had reached
  and `lastSeenUID` never goes back. The run does not list `NothingLost`, since
  `ImplementsFeed` implies it.
* `EmailImplementsFeed`: the refinement of `MessageFeed`, where the sent messages
  are the delivered ones; `FeedStep` maps every step to a step or a stutter.
* `EmailRepeatsHaveCause`: what a listener has sent for good is all but what it
  sent in a batch that its context cut short (`Kept`). It lies at or below the
  position from which any later poll starts, so the listener has nothing of it
  still to send (`Fresh`), nor has another that did not overlap with it (`Apart`,
  `OneRuns`).

`MessagingAdapterProofs` proves of the adapters behind the interface:

* `AdapterTyping`: the types of all three.
* `AdapterImplementsFeed` and `AdapterRepeatsHaveCause`: the email theorems,
  since a step of another adapter is a stutter of this one.
* `AdapterPanicHasCause`: `PanicHasCause`. A closed `closeChan` means that there
  was a session or bot, and either none is in use or there was a second one
  (`DiscordInv`, `TelegramPanic`); a Telegram `Listen` that has made its check and
  finds no bot was raced by a `Close`.
* `AdapterConfirmedIsSafe`: no update that Telegram will not give again is lost,
  for any number of competing listeners. What a pump handed over last is
  confirmed only by its next request, or by another listener's; so the
  invariant (`TelegramSafe`) is about the offsets as well: each is at most one
  above what is confirmed, and its update is delivered or on its way. `SafeKept`
  says that moving an update from channel to hand to reader keeps it safe.

`OutboundProofs` proves, for any senders, texts, limit and prefix length:

* `OutboundTyping`: `TypeOK`, strengthened by `Early`: a `Send` that is not yet
  sending is at its first chunk and still has something to cut.
* `OutboundWellCut`: each slice is added where the one before ended (`Cuts`).
* `OutboundFailureHasCause`: exactly the first slice has no prefix (`Marked`),
  and only a `Send` that returned has a result (`Pending`).
* `OutboundChunksTogether`: the holder of the mutex is the only busy sender, and
  since its first chunk arrived no other's did (`Exclusive`).
* `OutboundDeliveredInOrder`: `DeliveredInOrder`, of chunks that other senders' may
  come between. Each accepted chunk begins where the sender's latest before it
  ended (`Follows`), the latest is the one before `next` (`Progress`), and a Send
  returns without an error only after the chunk that ends the text (`Whole`).
  `ArrivalPlaces` says how the places of a sender's chunks grow.

`EventStreamsProofs` proves, for any streams, kinds, capacities and events:

* `StreamsTyping`: `TypeOK`, with `Shape` for the sequences TLC cannot enumerate.
* `CacheFollowsEvents`: a reader about to update the cache has read a block at
  least as new as its event, and with one subscription nobody else updates it.
  The events the cache is behind (`Behind`) leave out those whose callback brought
  nothing: at most the event received last is among them, while its callback is
  under way (`OneAhead`), and a callback that fails takes it out (`SkipKeeps`).
* `EventsInOrder`: `StreamsInOrder`. `Local` says what a channel has at every
  place of its reader: a chat's has all but the event in hand; a
  subscription's has some of the earlier ones, increasing.
* `ChatAgreesWithStream`: `ChatAgrees`. At every point of the fold the reply has the
  texts of the events so far, each at its place, and the first session id, and
  `Chat` goes on only while nothing has failed (`CallInv`). `CollectTexts` and
  `CollectSession` are the lemmas about one step of the fold; `TextPlacesGrow` is
  about the places of the texts in an answer that has grown by one event.

The assumptions of every proof are those that the modules state of their
constants.

Every invariant and every safety property that a passing run checks is a theorem.
`DeliveredInOrder` and `ChatAgrees` speak of places in sequences instead of
selecting subsequences, because a recursive selection cannot be unfolded in a proof.

Only model-checked: the liveness properties, which rest on fairness and are out of
the prover's reach (`CallsReturn`, `HealsWhenUnlimited`, `CloseReturns`,
`CancelStops`, `CloseStopsReaders`, `ArrivedIsDelivered`, `ListenersStop`,
`MessagesArrive`, `SendsReturn`, `ReadersGoOn`). The four statements that the
violation runs refute cannot be theorems; what is left of them is:
`QuietCloseIsFinal` for a dial after Close, `UnlimitedRetriesServe` for a refused
call, `GracefulShutdown` for the panic and `LoneSubscriptionsEnd` for the stream.

## What could come next

* Texts as characters of one to four bytes, to say where `splitMessage` divides
  one.

## Not modelled

* The other methods of `Client` and `VassagoClient`: each builds one request,
  makes one call and converts one reply; there is no state between calls. For
  the same reason `Ping` and `ListChannels`, and the email adapter's `Send`.
* The null client and the bearer token: constants.
* Formatting other than splitting (truncation, the platform's context, address
  validation): single string expressions.
* The protocol definitions, with the code generated from them, about 9000 of the
  13000 lines of Go in the repository: serialisation tables and stubs with no
  behaviour of the SDK's own. The models take an RPC as a request, an execution
  and a reply. The daemon is not in the repository.
* Contents: of replies, events, mails and AppleScript commands, as far as they
  are only copied; the lengths of timers.
