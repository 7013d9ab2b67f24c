# Verification of the Messenger bot

TLA+ modules, TLC configurations and TLAPS proofs for this repository: a
Node.js bot (`src/src`) on top of `meta-messenger.js`
(`src/packages/meta-messenger.js`), a TypeScript client whose connections are
made by a Go bridge (`bridge-go`) over a vendored Messenger library (`meta`).
The library brings its own Matrix connector (`meta/pkg/connector`), a second
user of the same connections; the bot does not link it, and it is modelled as
the program it is. In the paths below `meta/` stands for
`packages/meta-messenger.js/meta/pkg/`.

1. [Inventory of the system](#1-inventory-of-the-system)
2. [What is hard in it](#2-what-is-hard-in-it)
3. [Plan](#3-plan)
4. [Modules and their code](#4-modules-and-their-code)
5. [Runs, bounds and fairness](#5-runs-bounds-and-fairness)
6. [Where code and words disagree](#6-where-code-and-words-disagree)
7. [Proofs](#7-proofs)
8. [What is not modelled, and why](#8-what-is-not-modelled-and-why)
9. [Running it](#9-running-it)

## 1. Inventory of the system

A message travels through these parts, from the network to the answer:

```
 Meta --MQTT--> messagix --\                          /--> handlers: command, media, ping, chat
                            >-- bridge -- eventChan --+-> client.ts --> adapter --> BotCore
 Meta --E2EE--> whatsmeow --/   (Go)      (bounded)     event loop                 dispatcher
                    |                                                    chat --> context cache --> database
              DeviceStore --> e2ee_device.json / device.json             chat --> Gemini --> rate limiter --> send
```

| Component | State it keeps | Operations | Correct when |
|---|---|---|---|
| Dispatcher, `bot/core.mjs`, `main.mjs` | counter of active handlers, shutdown flag, idempotency cache | a delivery by `setImmediate`; vetting; profile lookup; handler chain with a timer per handler; drain and exit | every delivery gets one verdict, the counter is exact, a blocked user is not served, the shutdown ends |
| Idempotency cache, `core.mjs:63-77` | a ring of ids, a set of ids, an index | look up, evict, insert | it is the window of the last *cap* ids |
| Rate limiter, `adapters/messenger.mjs:5-38` | tokens, time of the last refill | `acquire()` by many handlers at once | the send rate is bounded, nobody waits for long |
| Messenger adapter, rest of `messenger.mjs` | client, `device.json`, current user | connect, forward events, limited sends, device data to disk | the device survives restarts |
| Database, `adapters/database.mjs` | SQLite: messages, threads, users, settings | migrate, save, query, block, maintain | a crash during a migration is survived |
| Context cache, `pipeline/context-loader.mjs` | map from thread to base context with its age | load, evict, invalidate, clear under memory pressure | bounded, and never too far behind the database |
| Chat handler and pipeline, `handlers/chat.mjs`, `pipeline/*` | none between messages | resolve thread, load context, decide, analyse, plan, compose, safety gate, send | an answer is made of what was said |
| Gemini adapter, `adapters/gemini.mjs` | none | one request with retries and backoff | a failure ends, in bounded time |
| Media handler and downloader, `handlers/media.mjs`, `adapters/media.mjs` | none | find links, download with retries, send in a batch | one failing item does not stop the others |
| Commands, `handlers/command.mjs`, `commands/*` | registry; cache of the last parsed text | ping, help, block, unblock, admin, ... | only the admin administers |
| Client, `client.ts` | readiness flags, queue of early messages, loop flag | connect, poll, handle an event, disconnect, ~40 request wrappers | messages in order, each once, held back until ready |
| Bridge requests, `bridge-go/main.go`, `messages.go`, `media.go` | handles, one client each | ~40 exported calls from threads of the native binding, with uploads and retries; connect, disconnect | a call that returns ok did what it says, ends, and a disconnect is safe |
| Bridge events, `bridge/events.go` | event channel, unreactions of the last minutes | tables and sealed messages into events | each message once, with all its parts |
| Device store, `bridge/client.go`, `bridge/store.go` | E2EE keys, sessions, identity; a file or a callback | change under lock, save in the background, load | identity and keys survive |
| Socket, `messagix/socket.go`, `responsehandler.go`, `client.go`, `events.go` | connection, packet ids, maps of channels, event queue | connection loop, reader, worker, requests with their acknowledgements | nobody waits for ever, nothing answers the wrong request, the connection comes back |
| Instagram's gateway, `messagix/dgw` | a websocket, two channels, six goroutines | handshake, ping and pong, frames, reconnect | a lost connection is dialled again |
| Sync, `messagix/syncManager.go` | a cursor per database, thread ranges | first sync, sync after a reconnect, pages | no message skipped, none handled twice between syncs |
| Decoder, `messagix/lightspeed`, `messagix/table` | stored values of one program | run a program of steps into rows, put a message's rows together | what is read is what was sent |
| Connector: connection, `connector/client.go`, `handlemeta.go` | client, E2EE client, table queue, cursor, timers, reported state | Connect, Disconnect, reconnects of three kinds, handling of tables | stopped means stopped, nobody is silently offline, the cursor passes only what was handled |
| Connector: rooms, `handlemeta.go`, `events.go`, `chatinfo.go` | the queue of a portal | a table by type into events, resyncs | a room shows its chat |
| Connector: from Matrix, `handlematrix.go` | otids, edit channels | send, edit, react, remove, rename, members, over both connections | what the user is told is so |
| Connector: history, `backfill.go`, `threadbackfill.go` | collectors by chat | join pages, wait, re-request; list of chats | no gap in the middle |
| Connector: sealed messages, `from-whatsapp.go`, `to-whatsapp.go`, `events.go` | per message: newest edit | write and read every kind of content | what arrives is what was sent, about the message meant |
| Connector: media, `from-meta.go`, `media.go`, `directmedia.go` | part ids, stored addresses | convert, link, download, renew | a link leads to its medium |
| whatsmeow and bridgev2 (other modules) | | decrypt, deliver; rooms and their database | external |
| Dashboard, `dashboard/handler.mjs` | none | HTTP routes: block and admin a user, change `.env`, queries | it goes through the same rows as the commands |
| Configuration, `config/index.mjs` | environment and `.env` file | load, update, persist | what is written is read back |
| Observability, `observability/*` | counters, an HTTP server | count, serve, stop | it does not hold up the exit |
| Login and cookies, `login.ts`, `utils.ts` | none | one-shot HTTP requests, conversions | a conversion loses nothing |

Everything in Node.js runs on one event loop: code between two `await`s is
atomic, and what is awaited is where other handlers come in between. The bridge
is Go: every callback and every save is a goroutine. The two meet in one
bounded channel that the client polls. The bot's parts share the database (all
calls synchronous), the rate limiter and the context cache. The bridge's threads
share one client; its socket is shared by callers, the reader, the worker and
the connection loop. The connector's goroutines share the fields of one login,
most of them without a lock, and its rooms are fed through one queue each.

## 2. What is hard in it

The hazards are listed with their lines in `PROJECT.json`; in groups:

* **Abandoned work.** A handler races a timer and the loser is not cancelled.
  It goes on executing, may answer, and is in no counter, while the next
  handler of the chain handles the same message and while a shutdown closes
  the database (core.mjs:86-147).
* **State read before an await and used after it.** A message waits for a
  profile lookup between the check of the shutdown flag and the check of the
  block list; a handler answers with a context that other handlers have
  invalidated; `acquire()` computes a wait and takes without looking again.
* **Order.** The id goes into the cache before backpressure is applied, the
  message into the database after it; messages are stored with the sender's
  timestamp and read in that order.
* **Two connections, one gate.** Readiness of two connections is kept in flags
  that one event resets together and that different events set, over a channel
  that drops what does not fit.
* **Crashes.** Migrations commit statement by statement, device files are
  truncated and then written, and saves overlap.
* **Limits and boundaries.** The ring wraps, the channel and the context cache
  fill up, the bucket is refilled from a clock that can be set back.
* **Things that must end.** Dispatches, drains, waits for a token, the way to
  readiness, every call of the bridge, every wait for an answer, every stop.
* **Answers of another time.** An answer that comes after its request gave up,
  an id of 16 bits that is used again, a page of a history asked for twice, an
  edit's correction after the answer that was wrong.
* **What was sent twice, lost or regrouped.** Pushes come again with the next
  sync, tables are lost with their connection, rows lose their order in a table.
* **Two sides of one format.** Two programs write and three read the same sealed
  messages, and one names a message by what the other must find it under.
* **Many who reconnect.** The bridge, a timer, a full reconnect and E2EE's own
  retries over one login.

## 3. Plan

The order is that of what a user of the bot would notice first, then down the
stack, then the library's other user.

1. **Dispatcher** with its idempotency cache: `DedupWindow` (abstract),
   `DedupRing` (refines it), `BotCore` (uses it). *Done, proved.*
2. **Rate limiter**: `RateLimiter`. *Done; waiting and rate proved.*
3. **Database start**: `Migration`. *Done, proved.*
4. **The way in**: `ClientGate`. *Done; safety proved.* **The identity**:
   `DeviceStore`. *Done; safety proved.*
5. **What the AI sees**: `ChatContext`. *Done, proved.*
6. **Fan-out of a table** in the bridge: `Tables`, over the decoder
   `Lightspeed`. *Done; proved but for the decoder.*
7. **The socket** below the bridge: `MqttSocket`. **Instagram's gateway**:
   `Gateway`. **Sync across connections**: `Sync`. *Done; safety proved.*
8. **Calls of the bridge, and the bridge after a disconnect**: `Bridge`. *Done;
   safety proved.*
9. **The connector**: `Connector` (login), `Outgoing` (what Matrix users do),
   `Backfill` (history), `Sealed` (encrypted messages, with the bridge as
   another reader), `Media` (pieces and links), `Incoming` (rooms). *Done;
   safety proved.*
10. **Left**: the room an encrypted chat gets before its thread is known; the
    retries of `gemini.mjs` and of the media handler against the handler
    timeout; the scoring of the pipeline stages; dashboard and settings.

Abstract specifications: `DedupWindow` for the cache (stated and proved);
"in order, at most once" for the gate and "bounded staleness" for the context
cache are stated as action properties instead of modules of their own.

## 4. Modules and their code

Each definition's lines are in the `map` of `PROJECT.json`. A definition whose
comment calls it a mutant, or a plausible slip, is a bug that the definition
below it might have had; putting it in that place makes TLC find the property
violated that the mutant is listed with. No specification uses one.

### DedupWindow, DedupRing: the idempotency cache

`DedupWindow` promises a sequence of the last `cap` distinct ids. `DedupRing`
is `core.mjs:63-77`: `buf` is the fixed array, `set` the `Set`, `seenIdx` the
write position. `Insert` evicts what its slot holds, adds, stores and moves on;
`Oldest` reads the ring from its oldest slot, and is the refinement mapping
(`Window == INSTANCE DedupWindow WITH window <- Oldest`). The two are checked by
themselves, with more ids than the cache holds, in the run limiter (a part of
`MCRateLimiter`); the dispatcher is proved to use them (`CoreUsesWindow`).

### BotCore: the dispatcher

One action per turn of the event loop. An *event* is a delivery, so a
redelivery is another event with the same id.

| Action | Code |
|---|---|
| `Deliver` | the adapter's listener schedules `setImmediate` |
| `Dispatch` (`Ignore`, `Examine`) | `#dispatch` up to its await; a known sender goes through to the end |
| `FetchDone` | the profile lookup answers or fails, then `Vet`, `Admit` |
| `Vet`, `Admit` | block check; duplicate, dropped, or into the chain |
| `HandlerReturns`, `HandlerFails`, `HandlerTimesOut`, `MoveOn` | the loop of `#runHandlers`, with `finally` |
| `ZombieEnds`, `Reply` | what a handler does, also after losing its race |
| `AdminTouches` | block, unblock, admin, and the dashboard's block |
| `Shutdown`, `Drained`, `DrainDeadline`, `Exit` | `shutdown()` and `main.mjs:59-100` |

Database calls can throw (`DbFaults`); a throw before or in the block check lets
the message through, also after the profile was written, as the code's comment
says it should. Abstracted: what
handlers match on is a constant, what they do is "reply or not", counters and
log lines are left out. The text of a message plays no part.

### RateLimiter

Time in ticks, tokens in fractions. `Take` is `acquire()` with a token left,
`Sleep` without one, `Wake` is what follows the timer, which may fire late.
`now` is the timers' clock and `Wall` is `Date.now()`, which `SetBack` can move.
`crowded`, `sent` and `before` are history: has a sender asked while another
slept, and how many tokens each has been handed so far and had been before each
tick.

### Migration

A migration is the sequence of its statements: create, add a column, write the
version. `Execute` runs one, `PassOver` is the catch of "duplicate column name",
which leaves the rest of that migration undone, `Prepare` is the compilation of
all statements, which throws when a column is missing. `Crash` can come between
any two.

### ClientGate

`chan` is the channel; `Push` drops when it is full, as `emitEvent` does.
`MqttReady`, `MqttFails`, `MqttRefused`, `ConnectE2EE`, `WaUp`, `WaDown` and
`Arrive` are what the bridge emits and when; a raw event precedes each. The
handlers of `client.ts` are `HandleSignal`, `HandleMessage`, `CheckFullyReady`,
`Disconnect`. `socketReady`, `e2eeConnected`, `open` and `pending` are
`_socketReady`, `_e2eeConnected`, `_fullyReadyEmitted` and `pendingEvents`.
Messages are numbers in the order they came in.

### ChatContext

`cache` is `#cache` of the context loader, `saved` the messages table, `phase`
how far the handler of a message got. `Begin` stores the message and loads the
context in one turn, because no await lies in between; `Think` stands for the
requests to Gemini; `Sent` drops the entry after the send and not before;
`EndsQuietly` is a send that failed, or the question that asks which thread is
meant. `Sweep` and `ClearCache` are the timers. An entry that came from a failed
read is marked, as history. Two messages of a thread do not share a timestamp
here: among equals the query would pick as it likes.

### DeviceStore

`own` is `e2ee_device.json` (bridge), `given` is `device.json` (adapter). A file
is absent, whole, or torn; a write that starts at the front of a longer file
leaves a torn one. `Snapshot`, `OpenFile`, `WriteFile` are the three moments of
`Save`, which run in as many goroutines as there are changes. The three starts
are the three constructors.

### Bridge: the exported calls

`Exports` maps every exported function to the list of steps it takes: look the
handle up, check an argument, upload (with retries inside retries), check the
image id, wait for the send gate, send, report. A disconnect ends the retries of
all but the registration for push notifications, which has a context of its own. `Step` takes the next one with
any answer the server or whatsmeow can give, so calls of several threads
interleave with each other, with `E2EERuns` and `StrayRuns` (whatsmeow's
handlers), `LoopRuns` and the four steps of `Disconnect`, in their order.
`left` is what the call sent and where. Two panics are in it: a send on the
closed event channel, and an index into an empty metadata list.

### MqttSocket, Gateway: the connections

`MqttSocket` is `socket.go` with `responsehandler.go` and the loop of
`client.go`. The loop dials, waits for the read loop, rests and dials again;
`Reader` reads one frame and hands it to the channel of its packet or request
id, if `hasPacket` finds it; `WorkerStep` takes events from the bounded queue,
and at "ready" runs the handshake of subscriptions and settings, itself a
caller; `Proceed(r)` is a caller between its two waits, on the acknowledgement
and on the response; `Drop` closes the connection and `CancelAllRequests` the
channels. Packet ids wrap at `IdMod` and skip 0. Channels hold one answer.
`crashed` is the panic of a send on a closed channel.

`Gateway` is `readLoop` of `dgw/dgwsocket.go`: the goroutines `copier`,
`sender`, `handler`, `pinger`, `watch` and `main` meet in two channels without
room, so that a send is taken together with a receive (`HandleFrame`,
`TakeFrame`), or waits. The server may answer wrongly, say something nobody
knows, fall silent; the connection may break unnoticed. `DialDgw`, `Return` and
`RestDgw` are `connectDGW`; `Leave` and `Cut` are what `Disconnect` and
`ForceReconnect` do to it.

### Sync: messages across connections

The server keeps a position per database and connection (`sent`), pushes what
comes while a connection is up, and answers requests block by block; the manager
keeps `cursor`. `Greeted`, `Ask` and `Receive` are the handshake's first sync and
`SyncSocketData`'s recursion while the answer says there is more; `Push` is
handled without moving the cursor, as the bridge does it. `window` is the bot's
idempotency cache, `handled` how often the bot handled a message.

### Lightspeed, Tables: what a table says

`Lightspeed` is `Decode`: literals, references (`store`, `load`), conditions,
arithmetic, lists and calls of stored procedures, which append rows. Undefined
arguments, absent columns, unknown procedures and values of a wrong type are
what the code does with each; `TableOf` sorts the rows into the lists of a
table. `Tables` is `WrapMessages` with the loops of
`handleTable`: rows that belong together by message id, a fallback order for
messages without inserts, and the window in which an unreaction is told once.
It takes what reads a payload as a constant, `Read`, which the run gives
`ReadTable` of `Lightspeed`, so that no recursive operator is in its way to a
proof. `Lists` has the one thing its loops do again and again, and those of
`Media`: go through a list and pass over some of it (`Chosen`).

### Sealed: one encrypted chat

`Send` is any of a dozen kinds of content written by a bridge, a connector or an
app (constants `Bridges`, `Connectors`, `Apps`); `log` holds what went out, by
whom, with the wrapper it was put in, and `Deliver` is a device that reads an entry,
in any order and perhaps twice. `Reading` is what the device makes of it:
`events.go` of the bridge, `from-whatsapp.go` of the connector, which moves a
medium (downloads, converts, uploads it) or shows a notice in its place. `said`
is, as history, the words that were written with a message, also where
`wrapWhatsAppMedia` leaves them behind. Keys of
messages (`WAKeyToMessageID`, `MessageIDToWAKey`), quotes and the edits a
connector keeps per message are data of the messages. `Bounded` says whether the
log is kept short for TLC (`Open`, `Room`).

### Incoming, Backfill: a room and its history

`Incoming`: `thread` is the chat on the server, `news` the rows of its next
table, `queued` the events `ParseTable` made of a table, by type, and `portal`
the room, changed by the `Handle...` actions as bridgev2 does when it is given
these events. `LoseTable` and `Resend` are what connections do; `Slice` and
`Resync` are answers that heal. `blurred` collects what the code is known to get
wrong, by name (`Conflicts`, `Blur`), until a snapshot heals it, so that the
property says exactly what may be wrong and no more. Rows of one type are taken
from a table with `Chosen` of `Lists`, which the provers can open. A resync or an
upsert fills the room from the messages it brings (`Filling`), and from nothing
else. Its participants are taken for everybody when they are as many as the thread
counts, the login's own row included, and there are any (`Whole`).

`Backfill`: `HistoryNext` is `FetchMessages` with its collector, the upserts and
range updates that join it, ticks, re-requests, time-outs, requests that fail and
contexts that end (`Fails`, `GivesUp`: each takes its own collector away and no
other's) and a second fetch of the same chat; `ChatsNext` is `StartThreadBackfill`.

### Connector: a login

Goroutines `start` (Connect), `again` (periodic reconnect, full reconnect) and
`stop` (Disconnect) run their steps over the fields of `MetaClient`; `loops` are
the table loops, of which a stopped one may still take a table; `queue` is the
channel of parsed tables, `cursor` what the next sync starts from, `done` the
tables that were handled. E2EE attempts are `sealed`, one at a time. `Crash` is
the end of the process; the next start finds what was saved, or nothing.

### Outgoing: what a Matrix user does

`task[c]` is a handler with its step, its attempts and what it said; `tasks[c]`
what the server did of it, `posted` the otids it took. A request may be lost
before or after the server did it. `AskEdit`, `Listen`, `Correct` and `Revert`
are the cursed edits: the first answer, the channel of corrections, and the five
seconds.

### Media: pieces and links

`ToMatrix` makes the pieces of a message: blobs, attachments, stickers, shares,
text, their part ids, and the merged caption; `Sources` says where the pieces
come from and in which order. `Look` ... `GetAgain` are a
download in direct mode: the row of the id, its address, and when that expired
the refresh by message, by share or by story, another download interleaving at
every request and every write to the database. `OpenChunk` and `ReadChunk` are
the chunked video.

### MC and proof modules

An MC module extends what it checks and gives the constants small values. Where
two or more modules that do not touch each other's state are checked in one run,
a variable `part` says which of them this history is about; the others stay in
an initial state, and no property is weakened by that: `MCReading` (Tables,
Sealed, Incoming, Backfill), `MCConnector` (Connector, Outgoing),
`MCMqttSocket` (MqttSocket, Gateway), `MCDeviceStore` (DeviceStore, Media),
`MCRateLimiter` (RateLimiter, DedupRing).
`MCTables` builds the payloads of `Tables`.

The theorems are in `BotProofs` (the dispatcher and its cache, gate, limiter and
device store), `DatabaseProofs` (migration and context cache), `MqttSocketProofs`
(socket and gateway), `BridgeProofs`, `ReadingProofs` (sync, tables, messages and
their media), `ConnectorProofs` (login, what Matrix users do, the encrypted chat,
history) and `PortalProofs` (rooms), which extends `RoomProofs`, the lemmas about
tables, queues and events that it rests on.

## 5. Runs, bounds and fairness

Twelve runs, all of which must pass. No symmetry is used: the constants'
elements differ in their roles. `CHECK_DEADLOCK FALSE` is set where every system
here may stop: when the process has exited, all that may happen has happened, or
a bound on time is reached. Two small elements are the rule, because what goes
wrong here goes wrong between two: two deliveries, two saves, two callers, two
edits.

**core** (`MCBotCore.cfg`). Three deliveries of two messages: a command and its
redelivery from one user, plain text from another; one handler slot; both users
unknown, so both profiles are looked up. That is enough for a redelivery to meet
the original in every phase, for backpressure to drop either of them, for a
block to land in a lookup, and for the shutdown to begin anywhere. `CoreInv`
(counter, queue, chain), `OneVerdictPerId`, `HistoryIsWhatRan`,
`BlockedNeverStarts`.

**core_live** (`MCBotCoreLive.cfg`). One sender, the cache holds a single id and
wraps, database calls may throw anywhere. Under `FairSpec`
`EveryDeliverySettles` and `ShutdownEnds`. Fairness: the event loop runs what is
queued, a lookup answers or fails (fetch errors are caught), timers fire, and
the sequence of `main.mjs` goes on. Handlers have none: they may hang. `Exit`
being fair includes that `metrics.stop()` resolves, which a dashboard connection
kept busy can delay.

**limiter** (`MCRateLimiter.cfg`). Two senders, a bucket of two tokens, one and a
half ticks per token (so waits are rounded), six ticks, a clock set back by
one. `RateBound`: no stretch of time hands out more than a full bucket and what
flows in meanwhile, to everybody together until two ask at once, and to each
sender for ever. `WaitIsBounded`. *The ring*: five ids, delivered in any order and
any number of times, a cache of three, so that it fills, evicts, wraps and meets
an id again before and after it was evicted. `RefinesWindow`: it is the abstract
window.

**migration** (`MCMigration.cfg`). A fresh or a version 1 file, four crashes.
There are eight statements, and the start after a crash depends on the tables
only, so more crashes repeat what fewer have shown. `MigrationInv`, `ComesUp`
(but for a database torn between the two columns). Fairness: whoever runs the
bot starts it again.

**gate** (`MCClientGate.cfg`). E2EE on, a channel of four, which the raw events
fill with two real ones, three messages, two lost connections. `GateInv`,
`LostOnlyOnDisconnect`, `ComesReady`. Fairness: the loop polls, a socket is
dialled again, whatsmeow reconnects by itself. `ComesReady` names all its
excuses: a connection that gave up, E2EE lost before the gate opened, a missed
first success, a channel at its brim.

**context** (`MCChatContext.cfg`). Two messages to the bot in one thread, one of
them stamped late, a third that is overheard or answered with a question, one in
another thread; a prompt of two, a cache of one thread, so
that the limit, the order and the eviction all bite; a time to live of two ticks,
one failing database call. `ContextInv`, `ServesRecent`, `ServesSettled`.

**device** (`MCDeviceStore.cfg`). The device store: two saves at once, which is
what it takes for one to overtake another; two pre-keys; three devices; restarts
in all modes, files that cannot be read: `SameDevice`, `NoPreKeyReplaced`. Media:
sixteen messages that between them have every kind of piece, alone, doubled and
in the pairs that merge, and videos of one to seven units in chunks of two; two
downloads; addresses that expire twice; one failed request or write:
`MediaFound`.

**socket** (`MCMqttSocket.cfg`). The socket: one caller beside the worker, packet
ids below three (so the counter wraps past 0 and an id is used again once nobody
waits for it), a queue
of one (so the reader blocks), refused and broken connections. `SocketInv`,
`SettlesAndStops`, `ComesBack`. Fairness: each goroutine goes on when it can and
every timer fires; the server owes nothing, callers need not ask. The gateway:
two connections, one message that was not asked for beside the answers of the
server: `GatewayEnds`. Fairness: goroutines go on, and an interval of the ping
timer ends when nothing is under way; that one goroutine is not kept waiting by
the others needs no more, because what they can do in an interval is finite.

**bridge** (`MCBridge.cfg`). Two threads, one call of each kind (calls of a kind
take the same steps), one retry where the code has five: two answers of every
kind are enough to tell a retry from giving up. `BridgeInv`, `OkMeansSent`,
`CallsEnd`. Fairness: a thread that is in a call goes on, since every wait of
the bridge has a time-out of its own.

**sync** (`MCSync.cfg`). Two databases, one with a cursor from the page and one
without; blocks of one message, so that an answer says there is more; two
dropped connections, one failed request; an idempotency cache of two for three
messages. `SyncInv`, `OnceBetweenSyncs`, `EveryMessageArrives` (unless the last
sync of its database failed). Fairness: connections come back, the worker and
the requests go on.

**reading** (`MCReading.cfg`). *Tables*: some hundreds of tables of two ids with
up to two rows of everything else, each as four programs: plain, by references,
under conditions, and among what is passed over; a window of two ticks.
`TablesRead`. *Sealed*: Anna with a bridge and a connector, Ben with a
connector and an app, in a direct chat or a group; three messages, the first of
any content, two timestamps so that edits are equal, older or newer; media of every
kind with a caption and without, moved and not.
`ArrivesAsSent`, `RightTarget`, `NewestEditStands`. *A room*: two others, two
messages, two fields of which one is merged into snapshots, three or four changes
of the chat under five mixtures of kinds of change, one lost or repeated table; of
members and snapshots, also five changes without a fault, which is what a partial
list needs to be as long as the thread's count.
`PortalFollows`. *History*: a chat of five messages in batches of two, counts of
four, a known anchor or none, any request refused; five chats in up to three batches. `HistoryWhole`.

**connector** (`MCConnector.cfg`). *A login* under seven budgets of tables, starts,
reconnects and faults, with E2EE or without, up to three tables; a table queue
of one, one retry.
`ConnectorInv`, `HandledBeforePassed`, `StandsStillOnlySaid`. *A user*: ten pairs
of handlers at once, three attempts, a channel of one correction, which overflows
as five do. `SaidIsSo`.

## 6. Where code and words disagree

The properties are stated so that they hold of the code. What the code does
otherwise than its words, or than its reader might expect, is an exception named
in a property, or a behaviour of the model that no property speaks of. These are
the ones met while modelling.

*The bot.*
- A command handler answers and then rejects or times out; the loop goes on to
  the chat handler (core.mjs:123), against "First-match-wins handler ordering
  prevents AI interference with commands" (AI_ANALYSIS.md:500).
- Two callers sleep for the same token and both leave on it (messenger.mjs:29);
  `RateBound` says what holds instead of the "Token-bucket rate limiter" of line 5.
- A crash between the two `ALTER`s of a migration leaves the second column out
  for ever (`Torn`, an exception of `ComesUp`; theorem `TornForGood`), where
  database.mjs:95 calls the error "safe to ignore".
- The counter of handlers in flight does not count the ones that timed out
  (core.mjs:79, :138). A disconnect throws away the queue that DOCS.md:1701
  promises to keep. An E2EE disconnect resets the socket's flag, which nothing
  sets again (client.ts:910; DOCS.md:1691). The base context does hold the
  current message, since the dispatcher stores it first (context-loader.mjs:70).

*The bridge.*
- Of two overlapping saves the older snapshot may be written last (client.go:465,
  :243). A memory-only store that was handed device data replaces `device.json`
  (client.go:575); the library defaults to it and the bot does not say otherwise.
- A racing `Disconnect` may close the channel under a send (`QuietDisconnectIsSafe`
  says when not). `ConnectE2EE` during a reconnect leaves a stray client that
  `Disconnect` does not end.
- An encrypted text sent while E2EE is down goes to the ordinary channel with
  thread 0 and returns ok (messages.go:44; DOCS.md:820). An empty list of upload
  metadata panics; a media message goes out with the id 0 when the answer had
  none, where a group photo refuses. Six attempts of six requests each are not
  cut short by a disconnect.

*The library.*
- A connect packet that fails leaves `s.conn` set (socket.go:132), so that
  `CanConnect` fails for ever while the log says "reconnecting" (`Stuck`, an
  exception of `ComesBack`). An answer between the look-up of its channel and the
  end of its request panics (`OnlyLatePanics`).
- The gateway's goroutines offer frames to a writer that may have left
  (dgwsocket.go:252, :313, :324, :339): `readLoop` never returns then, and the
  typing notices stay away (`Forsaken`). A text message, or an open frame whose
  JSON cannot be read, makes the reader turn in circles (`Spinning`). A frame of
  unknown kind takes the rest of its message with it, a pong included. While an
  ack is awaited nobody looks at `done`.
- The bridge never calls `PostHandlePublishResponse`: pushes do not move the
  cursor, and every sync brings them again; the idempotency cache is what keeps
  them apart (`OnceBetweenSyncs`). A failed sync is logged and not tried again
  before the next connection. The comment at syncManager.go:158 says "copy";
  it is the entry itself.
- Two inserts with one id lose their attachments, a message without an id is
  reported twice, a clock set back suppresses unreactions. NOT returns its
  argument (decode.go:124), and the result of I64_EQUAL takes neither branch of
  an IF.

*The connector.*
- A stopped table loop may still take a table, and drop it; a failed table is
  overtaken by a later one's cursor; a sync counts a table as applied when it is
  queued. These are the `lost` of `HandledBeforePassed`.
- Overlapping Connects are refused after the disconnect was already done: nobody
  is connected then (`refused`). The periodic timer fires once. A failed E2EE
  connect leaves the client set and blocks later attempts; E2EE is not raised
  again by Disconnect and Connect in one process (handlemeta.go:109); a device
  that could not be registered, or a client that is gone, ends the process
  (`SealPanics`).
- Two edits of one message at once take each other's channel of corrections, and
  an edit reverted at the five-second boundary may have been made. Reactions,
  removals, renames and changes of members are called done whatever the server
  says. Deleting an encrypted chat may delete one of its two threads and report
  an error.
- In a room: a resync whose participants happen to number as many as the thread
  says is taken for the full list; an edit is dropped when its message is still
  queued; what comes in one table with a deletion is lost; an unmute and an empty
  name are not carried by a resync; a lost message below a newer one is never
  fetched. All of it is in `blurred`.
- A thread that says something newer happened and brings no messages is to be
  filled by a request ("we need to fill any gap", events.go:628). But
  `CheckNeedsBackfill` then hands on the nil pointer of events.go:656-658, which
  as an `any` is not nil: `FetchMessages` takes it for a bundle and dereferences it
  (backfill.go:192-201). The portal's loop outlives the panic, and nothing is
  fetched (`Filling`); what was lost stays in `blurred`.
- In a history: an answer older than the collector's end is joined though it is
  not adjacent, and a forward fetch that times out leaves its gap.
- In an encrypted chat: the bridge passes over a place sent by the connector and
  says nothing of view-once media, contacts and timers; a caption that a Matrix user
  gives to audio, a file or a sticker is made (to-whatsapp.go:91-97) and not sent
  (`wrapWhatsAppMedia`, :377-401; `Captionless`); the connector shows every
  audio as a voice message, loses the page of a link without words, and an edit
  that is read before its message. A reply that leaves out its sender names
  nobody.
- Media: link previews point to parts that do not exist; of two shares merged
  into one part the medium is stored under the other's id (from-meta.go:297,
  whose comment takes that for impossible), and an admin notice with a share
  that is only a title gets the share's text as its caption and the share's id
  (from-meta.go:296-302); a carousel renews as its first
  picture and an ended story as another one; a part number may lead to another
  attachment when two downloads renew one message.

## 7. Proofs

All theorems hold for every value of the constants under the named assumptions
of the modules (`CapAssumption`, `CoreAssumption` and so on: types, finiteness of
the set of deliveries, capacities that are positive where the code needs it).
Where a property does not follow from itself, the invariant that carries it is
named, and TLC has checked that one on the small instance before it was proved.

**The bot.**

| Theorem | Says | Along which invariant |
|---|---|---|
| `RingInvariant`, `RingImplementsWindow` | set and ring agree; the ring implements the window | slots hold distinct ids, unset slots are a suffix from the write position on; the refinement splits on whether the ring is full |
| `CoreInvariant` | the whole invariant of the dispatcher | `CoreInv` is inductive: the counter needs the queue and the phases |
| `CounterIsExact`, `ChainStaysInOrder` | its parts | from `CoreInvariant` |
| `BlockedUsersAreNotServed` | the action property | from the invariant, action by action: only `Vet` starts a run when the database does not fail |
| `CoreUsesWindow` | the dispatcher refines the window | every step is a ring step or leaves the ring alone |
| `HistoryHolds` | what is stored is what got into the chain | every step decides one delivery or none (`StepDecides`) |
| `VerdictsAreUnique` | two deliveries of an id are not both accepted | `VerdictInv`: an accepted message's id is in the cache; by the pigeonhole principle a cache with room for every id never overwrites one |
| `LimiterInvariant`, `NobodyWaitsLong` | the bucket is never overfull; the wait is bounded | a bucket can be negative when the clock went back, so `DebtIsSkew` bounds the debt; two lemmas on rounding up |
| `TheRateIsKept` | no stretch of time hands out more than a bucket and the inflow | `RateInv`: what was handed out since any earlier tick and what the bucket holds together stay below the bound (`Keeping`), and a sender that wakes finds room for its token (`RoomAtWake`), for everybody until two ask at once, for each sender after it |
| `MigrationInvariant` | a recorded version is earned | `DoneSoFar`: what the current migration has done up to its next statement |
| `TornForGood` | a torn database stays torn | a torn database starts at version 1, its first statement is passed over |
| `ContextInvariant` | the context cache is bounded, sound and fresh | `EntriesFresh` relates an entry to what was stored before it was read; a message the limit pushed out stays out; that the newest messages fit a prompt is a pigeonhole argument on how many are newer |
| `ContextsAreRecent`, `ContextsAreSettled` | the two action properties of the cache | from `EntriesFresh` and the age of the entry, or its absence after a reply |
| `GateInvariant`, `NothingElseIsLost` | order, no duplicates, no other loss | `InOrder` relates the channel, the queue and what was delivered |

**The bridge and the library.**

| Theorem | Says | Along which invariant |
|---|---|---|
| `StoreInvariant`, `PreKeysAreNotReplaced`, `SameDeviceForEver` | counters ahead of keys in every copy; one device per file | `SoundInv` speaks of every copy that a restart might load; `SameInv` adds the device of the saves under way |
| `WhatIsOkWasSent` | a call that ends well has sent what it should, with its upload | `SendInv`: what is left of a call's program cannot end well without sending, nor send without uploading; what each exported function begins with is shown function by function (`Opening`), after that no function is known by its name |
| `ADisconnectIsSafe` | one Disconnect at a time, in order; no send on the closed channel if nothing raced it | `LifeInv`: how far the one Disconnect is (`HowFar`), and what it has already stopped (`Undisturbed`) |
| `SocketSafe` | the whole invariant of the MQTT socket | `SocketInv` is inductive: `RequestsSound` (what a caller waits on is registered, and nobody else's), `ReaderSound` (what the reader holds), `GreetingSound` (what the worker's handshake has done), `NobodyLeftWaiting`; the ids are the hard part, since an id that wraps must not be given out twice |
| `NobodyWaitsOnNothing`, `NoEventMistaken`, `PanicsOnlyLate`, `GateAfterSubscription` | its parts: no caller of a connection that is over, no event taken for an answer, one way to panic, nothing sent before the subscription | from `SocketSafe` |
| `RoundsAreSound` | the goroutines of the gateway, its two channels and what the server was told agree | `RoundSound`: where the pong of a ping can be, until it is counted or somebody is to blame |
| `NoMessageIsSkipped` | a cursor never passes a message that was not handled | `SyncIInv`: where the cursors are (`CursorSound`) and what is queued (`QueueSound`) |
| `NoneIsHandledAgainInBetween` | a message is handled twice only when the cache was outrun since the last whole sync | a handled message is `Among` the last ones the cache holds, counted since that sync began, or lies behind the cursor and waits nowhere; what a block lets through the cache is a recursive function, taken apart by induction over its length |
| `TablesAreTold` | of a table every message is told once, before what the table says of it, with its attachments and no other's; every reaction, but those of an upserted message; every unreaction once per window | what `Chosen` keeps is counted by a one-to-one map from the places it keeps (`ChosenHas`); `EventsAre` finds every event's list by its type, so that each part of the property is about one list; `TablesInv`: what `recent` remembers is when `seen` says it was told, unless that is long ago or the clock was set (`Recalled`), which the loop over the unreactions keeps for what it has come to (`SoFar`), by induction |
| `TablesAreRead` | a payload comes out as the events of the table it was sent for | from `TablesAreTold`; that a payload is read as its table is the hypothesis, which is the decoder's part |

**The connector.**

| Theorem | Says | Along which invariant |
|---|---|---|
| `TheUserIsToldWhatIsSo` | what a user is told of a message, an edit, a deletion is so | `SaidInv`: a correction is on its way, or in the channel of the edit that waits for it, or the edit is excused, and it is sent only for an edit that was done |
| `AStopIsOne`, `ItSaysThatItStandsStill`, `NoTableIsForgotten` | a Disconnect leaves nothing that connects or works on; a login nobody connects has said so; every table a cursor has passed was handled, is on its way or is counted as lost | `LoginInv`: one call connects at a time and one that leaves without a word met somebody who goes on (`Alone`, `Answered`), one loop (`OneLoop`), a stop keeps what it has done away with (`Calmed`), and all before any place from which a sync may start is accounted for (`AllCovered`) |
| `WhatIsSentArrives`, `EveryoneMeansTheSameMessage`, `TheNewestEditIsShown` | a sealed message is shown as what it was meant to be, with its words but for `Captionless` ones, or as one notice where its medium could not be moved; reactions, edits, removals and replies are about the message that was meant; no message goes back to an older text | `ChatInv`: every entry of the log `Fits` its author, and a connector keeps a message under its own id for it (`Known`); a key that is right in the eyes of its sender is read back to the same message by everybody (`KeyIsRead`) |
| `PortalIsKept` | when nothing of the chat is on its way, its room shows it as it is, but for what is blurred | `Kept`, see below |
| `NoHistoryIsMissing` | what a fetch returns has no gap and says whether there is more; a list of chats that is called complete is | `HistoryInv`: what a call has collected reaches from its lower end to its top, whatever is joined to it in whichever phase (`Ends`, `Collecting`, `Gapless`); `ChatsInv`: the key the login stores and the key it last asked behind |
| `WhatWasSentIsFound` | every piece of a message is there once, under an id of its own; a link gives its medium, with named exceptions; a video is read whole | the message as it is made is sound (`MessageStands`: pieces of different places are of different files, ids of different pieces differ, a merged pair keeps one); `RowsInv`: of a row only the addresses change; `AsksInv`: a download holds the address it was given, nothing is renewed before it expired unless something went wrong, and a number decides only where another download was through first or something went wrong; `ChunksInv`: what was read and what is held together are what was opened |

*The room.* That the room is right when the queue is empty says nothing of a
queue that is not; `Kept` says what the queue will have made of the room. There
is a chat `was`, as it stood when the last table was made, and

* what waits in the queue leads the room to `was` (`RoomFits`, `TextFits`). For
  every aspect the last event that says anything of it is right, or the room is
  right already and nothing is said against it (`Lasts`); only what comes to
  nothing because there is no room for it must be told apart (`Housed`, `NoRoom`);
* the rows of the next table lead from `was` to the chat as it is (`Since`), and
  what they say last of anything is so (`TableFits`);
* the table that may come again was right about `was`;
* no room, bundle or event is ahead of the server (`Behind`, `EventFits`).

Its parts were checked by TLC on the instance of the run reading before they were
proved. `HandleTakes` says what each handler does to each aspect and is the one
place where the handlers are opened; `ParsedRenders` says where each row of a
table stands among its events, by type and then by the order of the rows, and is
the one place where `ParseTable` is. From these, `PushFollows`, `ResendFollows`,
`LossFollows`, `PopFollows` and `MoveFollows` are the steps. The theorem asks of
the constants that the others and the messages are finite sets, the messages
numbered from 1, and that the user is none of the others (`IncomingAssumption`);
nothing is asked of `Stories`, so any number of operations and faults may happen.

Six attempts found something in the model that the small instances had not
shown: in Incoming, a snapshot with its participants never carried its messages,
because an `ELSE` reached to the end of the concatenation (now in parentheses; the
run reading has more states for it, and the property holds); two overlapping `CASE` guards, whose order the code decides (`TakeFrame` in
Gateway, `WAKeyToMessageID` in Sealed), a missing case of `lost` in Connector,
a union that bound wrongly in `Sends` of Bridge, and in Media a notice whose text
is not lost but becomes a caption, which `PiecesStand` called impossible until a
message with one was added to the run.

Only model-checked:

* everything under fairness (`EveryDeliverySettles`, `ShutdownEnds`, `ComesUp`,
  `ComesReady`, `SettlesAndStops`, `ComesBack`, `GatewayEnds`, `CallsEnd`,
  `EveryMessageArrives`), which TLAPS does not do;
* of `TablesRead`, that the decoder of `Lightspeed` reads a payload as the table it
  was sent for: it is a recursive operator over programs, and what it computes for
  every program is induction over data. It is the hypothesis of `TablesAreRead`,
  and the run reading checks it of some hundreds of programs.

## 8. What is not modelled, and why

* Text: prompts, JSON repair, parsing of commands, pages and cookies, formatting
  and mentions, the wording of notices. No property here depends on it.
* `adapters/gemini.mjs` and `handlers/media.mjs`: up to four attempts of 30 s
  each, and batches in which a failed item is skipped. They keep no state between
  messages; their length is the handler of `BotCore` that outlives its timeout.
* Dashboard, settings, metrics and logs: queries and text; what matters of the
  HTTP server, that `stop()` resolves, is an assumption of `ShutdownEnds`. A
  connection kept busy can delay it (metrics.mjs:137).
* An event without any id is neither deduplicated nor stored (core.mjs:65): the
  bridge emits none. `!block` of an id that never wrote makes a bare row, whose
  profile is never fetched (core.mjs:150): it is in `BotCore`, and no property
  speaks of it, because nothing promises otherwise.
* Logging in: the password screens (`bloks`), cookies, push tokens. The bot is
  given cookies.
* The bridge: the typed wrappers of `client.ts`; thumbnails, voice conversion,
  MIME types. `ForwardMessage`, polls and `DownloadMedia` are not exported.
* MqttSocket: an id that comes round while its request still waits, which takes
  65535 requests within one time-out (`SafePacketID` passes over such ids, the code
  over 0 only); a second Connect at the same time, the lengths of waits, pings as
  such, duplicate answers, a half-closed connection, the goroutine that sends
  PUBACKs.
* Sync: it is assumed that an answer has one block and is of the database asked
  for, that the second database has no messages, and that snapshots bring none
  that are new. The GraphQL query before the first cursor is not modelled.
* Gateway: arithmetic of frame lengths, the content of a typing notice.
* Connector: logging in, commands, capabilities, push keys, the room an
  encrypted chat gets, message requests and folders, subthreads, uncertain
  receivers, rooms that cannot be created, private chats' names, disappearing
  timers, WhatsApp direct media, ids of old media links. E2EE attempts come one
  at a time, and a race for the client pointer is taken as atomic.
* whatsmeow, bridgev2, SQLite and the servers: external, modelled from how the
  code uses them and marked so in the `map`.

## 9. Running it

```
tlc -workers 2 -config MCBotCore.cfg MCBotCore
tlapm BotProofs.tla
```
